---- MODULE Spec2Model ----
(***************************************************************************)
(* GophKeeper: vault cryptography, session tokens, the auth middleware,    *)
(* the HTTP handlers over the in-memory store and the client session.      *)
(***************************************************************************)
EXTENDS Integers, Sequences, FiniteSets, TLC

VARIABLES users, store, now, session, cliToken, config, configFile,
          lastCmd, http, regSalt, nextData, jwtToken, jwtClaims,
          managers, envelope, decrypted, inflight, built, verified

vars == <<users, store, now, session, cliToken, config, configFile,
          lastCmd, http, regSalt, nextData, jwtToken, jwtClaims,
          managers, envelope, decrypted, inflight, built, verified>>

\* the state of the server, of the client program, of a token issuer used on
\* its own, and of crypto managers used on their own
serverVars == <<users, store, regSalt, nextData>>
clientVars == <<session, cliToken, config, configFile, lastCmd>>
issuerVars == <<jwtToken, jwtClaims>>
cryptoVars == <<managers, envelope, decrypted>>
buildVars == <<built, verified>>

(***************************************************************************)
(* Bounds                                                                  *)
(***************************************************************************)
MaxTime == 3
MaxData == 1
TokenExpiry == 1
\* byte positions of a field that a single-byte corruption may hit
MaxFlip == 2

(***************************************************************************)
(* Program constants                                                       *)
(***************************************************************************)
SaltSize == 32
MinMasterPasswordLen == 8
NonceSize == 12
StatusOK == 200
StatusCreated == 201
StatusNoContent == 204
StatusBadRequest == 400
StatusUnauthorized == 401
StatusForbidden == 403
StatusNotFound == 404
StatusConflict == 409

(***************************************************************************)
(* Input domains                                                           *)
(***************************************************************************)
Usernames == {"alice", "bob"}
AccountPassword == "pw1"
MasterPasswords == {"masterpw1", "masterpw2"}
MasterInputs == MasterPasswords \cup {""}
Secrets == {"4111"}
DataTypes == {"login_password", "text", "binary", "bank_card"}
JWTSecret == "server-secret"
OtherSecret == "other-secret"
Salts == {1, 2}
Nonces == {1}
\* uuid.New(): the n-th fresh identifier
UserID(n) == "u" \o ToString(n)
DataID(n) == "d" \o ToString(n)

(***************************************************************************)
(* Byte strings, base64 and UUID text forms                                *)
(***************************************************************************)
\* a random byte string of the given length, identified by its value id
Bytes(n, id) == [len |-> n, id |-> id]
NoBytes == Bytes(0, 0)

\* base64.StdEncoding.EncodeToString / DecodeString
Base64Encode(b) == [enc |-> "b64", of |-> b]
Base64Decode(s) ==
    IF s.enc = "b64" THEN [err |-> "", bytes |-> s.of]
    ELSE [err |-> "illegal base64 data", bytes |-> NoBytes]
EmptyString == [enc |-> "raw", of |-> NoBytes]

\* uuid.UUID.String / uuid.Parse; header values are text
UUIDString(u) == [text |-> "uuid", v |-> u]
PlainText(s) == [text |-> "plain", v |-> s]
UUIDParse(h) ==
    IF h.text = "uuid" THEN [err |-> "", id |-> h.v]
    ELSE [err |-> "invalid UUID", id |-> ""]

(***************************************************************************)
(* internal/crypto: key derivation, AEAD, the envelope                     *)
(***************************************************************************)
\* pbkdf2.Key(password, salt, 100000, 32, sha256.New): a function of
\* (password, salt) only, distinct inputs giving distinct keys
PBKDF2(pw, salt) == [pw |-> pw, salt |-> salt]
NoKey == PBKDF2("", NoBytes)

\* plaintext byte strings: the form they were marshalled in and what they say
Plain(form, secret) == [form |-> form, secret |-> secret]
NoPlain == Plain("raw", "")
PlainLen(p) == IF p.form = "json" THEN Len(p.secret) + 2 ELSE Len(p.secret)

\* gcm.Seal / gcm.Open: ciphertext and tag bound to key and nonce; flip is the
\* position of a byte of the sealed bytes changed since sealing, 0 for none
Seal(key, nonce, pt) == [key |-> key, nonce |-> nonce, pt |-> pt, flip |-> 0]
NoSealed == Seal(NoKey, 0, NoPlain)
\* the sealed bytes (ciphertext and tag) with byte i changed
FlipData(sealed, i) == [sealed EXCEPT !.flip = i]
\* a nonce with byte i changed: a value no nonce source produces, distinct for
\* distinct (nonce, i)
FlipNonce(nonce, i) == 0 - (nonce * (MaxFlip + 1) + i)
Open(key, nonce, sealed) ==
    IF /\ sealed.key = key /\ sealed.nonce = nonce /\ sealed.flip = 0
       /\ sealed # NoSealed
    THEN [err |-> "", pt |-> sealed.pt]
    ELSE [err |-> "cipher: message authentication failed", pt |-> NoPlain]

\* a []byte value: empty, plaintext bytes, or the JSON of an EncryptedData
EmptyBytes == [fmt |-> "empty", nonce |-> 0, salt |-> NoBytes,
               data |-> NoSealed, plain |-> NoPlain]
PlainBytes(p) ==
    IF PlainLen(p) = 0 THEN EmptyBytes
    ELSE [fmt |-> "plain", nonce |-> 0, salt |-> NoBytes,
          data |-> NoSealed, plain |-> p]
\* json.Marshal(EncryptedData{Nonce, Salt, Data})
MarshalEncryptedData(nonce, salt, sealed) ==
    [fmt |-> "envelope", nonce |-> nonce, salt |-> salt,
     data |-> sealed, plain |-> NoPlain]
\* json.Unmarshal(bytes, &EncryptedData): a JSON object without the three
\* fields decodes to zero values, anything that is not JSON is an error
UnmarshalEncryptedData(b) ==
    IF b.fmt = "envelope"
    THEN [err |-> "", nonce |-> b.nonce, salt |-> b.salt, data |-> b.data]
    ELSE IF b.fmt = "plain" /\ b.plain.form = "json"
    THEN [err |-> "", nonce |-> 0, salt |-> NoBytes, data |-> NoSealed]
    ELSE [err |-> "invalid character", nonce |-> 0, salt |-> NoBytes,
          data |-> NoSealed]

\* the length of a nonce: 0 stands for the empty nonce of an envelope that has
\* none, every other value for gcm.NonceSize() bytes
NonceLen(nonce) == IF nonce = 0 THEN 0 ELSE NonceSize
\* gcm.Open does not return when the nonce has another length: it panics
NonceLengthPanic == "panic: crypto/cipher: incorrect nonce length given to GCM"

NilCryptoManager == [nil |-> TRUE, masterPassword |-> "", key |-> NoKey,
                     salt |-> NoBytes]

NewCryptoManager(masterPassword, randSalt) ==
    IF masterPassword = ""
    THEN [err |-> "master password cannot be empty", cm |-> NilCryptoManager]
    ELSE [err |-> "",
          cm |-> [nil |-> FALSE, masterPassword |-> masterPassword,
                  key |-> PBKDF2(masterPassword, Bytes(SaltSize, randSalt)),
                  salt |-> Bytes(SaltSize, randSalt)]]

\* a constructor that takes the salt as it comes
NewCryptoManagerWithSaltAnyLength(masterPassword, salt) ==
    IF masterPassword = ""
    THEN [err |-> "master password cannot be empty", cm |-> NilCryptoManager]
    ELSE [err |-> "",
          cm |-> [nil |-> FALSE, masterPassword |-> masterPassword,
                  key |-> PBKDF2(masterPassword, salt), salt |-> salt]]

NewCryptoManagerWithSalt(masterPassword, salt) ==
    IF masterPassword = ""
    THEN [err |-> "master password cannot be empty", cm |-> NilCryptoManager]
    ELSE IF salt.len # SaltSize
    THEN [err |-> "invalid salt length", cm |-> NilCryptoManager]
    ELSE [err |-> "",
          cm |-> [nil |-> FALSE, masterPassword |-> masterPassword,
                  key |-> PBKDF2(masterPassword, salt), salt |-> salt]]

\* an encryption whose envelope leaves the salt out
EncryptNoSalt(cm, data, nonce) ==
    IF data.fmt = "empty"
    THEN [err |-> "data cannot be empty", out |-> EmptyBytes]
    ELSE [err |-> "",
          out |-> MarshalEncryptedData(nonce, NoBytes,
                                       Seal(cm.key, nonce, data.plain))]

Encrypt(cm, data, nonce) ==
    IF data.fmt = "empty"
    THEN [err |-> "data cannot be empty", out |-> EmptyBytes]
    ELSE [err |-> "",
          out |-> MarshalEncryptedData(nonce, cm.salt,
                                       Seal(cm.key, nonce, data.plain))]

\* a decryption with the manager's own key instead of the key derived from
\* the envelope's salt
DecryptWithOwnKey(cm, encryptedData) ==
    IF encryptedData.fmt = "empty"
    THEN [err |-> "encrypted data cannot be empty", pt |-> NoPlain]
    ELSE LET encData == UnmarshalEncryptedData(encryptedData) IN
         IF encData.err # ""
         THEN [err |-> "failed to unmarshal encrypted data", pt |-> NoPlain]
         ELSE IF encData.salt.len # SaltSize
         THEN [err |-> "invalid salt length in encrypted data", pt |-> NoPlain]
         ELSE IF NonceLen(encData.nonce) # NonceSize
         THEN [err |-> NonceLengthPanic, pt |-> NoPlain]
         ELSE LET opened == Open(cm.key, encData.nonce, encData.data) IN
              IF opened.err # ""
              THEN [err |-> "failed to decrypt data", pt |-> NoPlain]
              ELSE [err |-> "", pt |-> opened.pt]

\* a decryption that drops the error of gcm.Open and returns what it got
DecryptIgnoresOpenError(cm, encryptedData) ==
    IF encryptedData.fmt = "empty"
    THEN [err |-> "encrypted data cannot be empty", pt |-> NoPlain]
    ELSE LET encData == UnmarshalEncryptedData(encryptedData) IN
         IF encData.err # ""
         THEN [err |-> "failed to unmarshal encrypted data", pt |-> NoPlain]
         ELSE IF encData.salt.len # SaltSize
         THEN [err |-> "invalid salt length in encrypted data", pt |-> NoPlain]
         ELSE IF NonceLen(encData.nonce) # NonceSize
         THEN [err |-> NonceLengthPanic, pt |-> NoPlain]
         ELSE LET key == PBKDF2(cm.masterPassword, encData.salt)
                  opened == Open(key, encData.nonce, encData.data) IN
              [err |-> "", pt |-> opened.pt]

Decrypt(cm, encryptedData) ==
    IF encryptedData.fmt = "empty"
    THEN [err |-> "encrypted data cannot be empty", pt |-> NoPlain]
    ELSE LET encData == UnmarshalEncryptedData(encryptedData) IN
         IF encData.err # ""
         THEN [err |-> "failed to unmarshal encrypted data", pt |-> NoPlain]
         ELSE IF encData.salt.len # SaltSize
         THEN [err |-> "invalid salt length in encrypted data", pt |-> NoPlain]
         ELSE IF NonceLen(encData.nonce) # NonceSize
         THEN [err |-> NonceLengthPanic, pt |-> NoPlain]
         ELSE LET key == PBKDF2(cm.masterPassword, encData.salt)
                  opened == Open(key, encData.nonce, encData.data) IN
              IF opened.err # ""
              THEN [err |-> "failed to decrypt data", pt |-> NoPlain]
              ELSE [err |-> "", pt |-> opened.pt]

\* the receiver after an Encrypt or a Decrypt call: neither assigns to a field
\* of cm
AfterEncrypt(cm, data, nonce) == cm

\* a decryption that keeps the key it derived, and its salt, in the manager
AfterDecryptCachesKey(cm, encryptedData) ==
    LET encData == UnmarshalEncryptedData(encryptedData) IN
    IF encryptedData.fmt = "empty" \/ encData.err # "" \/ encData.salt.len # SaltSize
    THEN cm
    ELSE [cm EXCEPT !.key = PBKDF2(cm.masterPassword, encData.salt),
                    !.salt = encData.salt]

AfterDecrypt(cm, encryptedData) == cm

GetSaltBase64(cm) == Base64Encode(cm.salt)

\* a check that accepts any salt that is not empty
VerifyMasterPasswordAnySalt(masterPassword, salt) ==
    ~(masterPassword = "" \/ salt.len = 0)

\* aes.NewCipher takes the 32-byte key PBKDF2 returns and cipher.NewGCM the
\* AES block it returns: neither fails
VerifyMasterPassword(masterPassword, salt) ==
    ~(masterPassword = "" \/ salt.len # SaltSize)

\* the outcome of one constructor call: its arguments (salt is NoBytes for
\* NewCryptoManager, which draws its own) and what came back
Built(fn, masterPassword, salt, res) ==
    [fn |-> fn, masterPassword |-> masterPassword, salt |-> salt,
     err |-> res.err, cm |-> res.cm]
NoBuilt == Built("", "", NoBytes, [err |-> "", cm |-> NilCryptoManager])

\* the outcome of one VerifyMasterPassword call
Verified(masterPassword, salt, ok) ==
    [called |-> TRUE, masterPassword |-> masterPassword, salt |-> salt, ok |-> ok]
NoVerified == [called |-> FALSE, masterPassword |-> "", salt |-> NoBytes, ok |-> FALSE]

\* bcrypt.GenerateFromPassword / CompareHashAndPassword
BcryptHash(pw) == [bcrypt |-> pw]
BcryptMatches(hash, pw) == hash = BcryptHash(pw)

\* the crypto managers a program holds, by variable name
ManagerNames == {"cm1", "cm2"}

\* the bytes in hand: what they are, and when they came out of Encrypt, the
\* plaintext and the manager that made them and the field corrupted since
Envelope(bytes, plain, by, made, err) ==
    [bytes |-> bytes, plain |-> plain, by |-> by, made |-> made, err |-> err,
     tampered |-> ""]
NoEnvelope == Envelope(EmptyBytes, NoPlain, NilCryptoManager, FALSE, "")

\* the outcome of one Decrypt call: the manager, the bytes it was given, and
\* what came back
Decrypted(cm, env, res) ==
    [cm |-> cm, env |-> env, err |-> res.err, pt |-> res.pt, done |-> TRUE]
NoDecrypted ==
    [cm |-> NilCryptoManager, env |-> NoEnvelope, err |-> "", pt |-> NoPlain,
     done |-> FALSE]

(***************************************************************************)
(* internal/auth: the session token issuer                                 *)
(***************************************************************************)
NoToken == [kind |-> "none", userID |-> "", username |-> "", iat |-> 0,
            exp |-> 0, sig |-> ""]
GarbageToken == [kind |-> "garbage", userID |-> "", username |-> "",
                 iat |-> 0, exp |-> 0, sig |-> ""]

GenerateToken(secret, ttl, userID, username, t) ==
    [kind |-> "jwt", userID |-> userID, username |-> username, iat |-> t,
     exp |-> t + ttl, sig |-> secret]

\* a validation that reads the claims without verifying the signature
ValidateTokenAnySecret(secret, token, t) ==
    IF token.kind # "jwt"
    THEN [err |-> "ErrInvalidToken", userID |-> "", username |-> ""]
    ELSE IF t > token.exp
    THEN [err |-> "ErrTokenExpired", userID |-> "", username |-> ""]
    ELSE [err |-> "", userID |-> token.userID, username |-> token.username]

\* a validation that also rejects a token without a username
ValidateTokenRequiresUsername(secret, token, t) ==
    IF token.kind # "jwt" \/ token.sig # secret \/ token.username = ""
    THEN [err |-> "ErrInvalidToken", userID |-> "", username |-> ""]
    ELSE IF t > token.exp
    THEN [err |-> "ErrTokenExpired", userID |-> "", username |-> ""]
    ELSE [err |-> "", userID |-> token.userID, username |-> token.username]

ValidateToken(secret, token, t) ==
    IF token.kind # "jwt" \/ token.sig # secret
    THEN [err |-> "ErrInvalidToken", userID |-> "", username |-> ""]
    ELSE IF t > token.exp
    THEN [err |-> "ErrTokenExpired", userID |-> "", username |-> ""]
    ELSE [err |-> "", userID |-> token.userID, username |-> token.username]

\* the outcome of one ValidateToken call: the issuer's secret, the token, the
\* time, and what came back
Validation(secret, token, t, claims) ==
    [secret |-> secret, token |-> token, at |-> t, err |-> claims.err,
     userID |-> claims.userID, username |-> claims.username]
NoValidation ==
    Validation("", NoToken, 0, [err |-> "", userID |-> "", username |-> ""])

(***************************************************************************)
(* internal/models: users, records, requests and responses                 *)
(***************************************************************************)
User(id, username, password, masterPassword, salt, createdAt) ==
    [ID |-> id, Username |-> username, Password |-> password,
     MasterPassword |-> masterPassword, Salt |-> salt,
     CreatedAt |-> createdAt, UpdatedAt |-> createdAt]
NoUser == User("", "", BcryptHash(""), BcryptHash(""), EmptyString, 0)

\* the string in DataRequest.Metadata: its layout and the typed text it shows
Metadata(layout, shows) == [layout |-> layout, shows |-> shows]
NoMetadata == Metadata("", "")

Data(id, userID, type, name, description, data, metadata, createdAt, updatedAt) ==
    [ID |-> id, UserID |-> userID, Type |-> type, Name |-> name,
     Description |-> description, Data |-> data, Metadata |-> metadata,
     CreatedAt |-> createdAt, UpdatedAt |-> updatedAt]
NoData == Data("", "", "", "", "", EmptyBytes, NoMetadata, 0, 0)

\* a request body: the JSON of a UserRequest, LoginRequest or DataRequest,
\* or bytes that json.Decode rejects (valid = FALSE)
Body(valid, username, password, masterPassword, type, name, description, data, metadata) ==
    [valid |-> valid, Username |-> username, Password |-> password,
     MasterPassword |-> masterPassword, Type |-> type, Name |-> name,
     Description |-> description, Data |-> data, Metadata |-> metadata]
NoBody == Body(FALSE, "", "", "", "", "", "", EmptyBytes, NoMetadata)
UserRequest(username, password, masterPassword) ==
    Body(TRUE, username, password, masterPassword, "", "", "", EmptyBytes, NoMetadata)
LoginRequest(username, password) ==
    Body(TRUE, username, password, "", "", "", "", EmptyBytes, NoMetadata)
DataRequest(type, name, description, data, metadata) ==
    Body(TRUE, "", "", "", type, name, description, data, metadata)

\* one field of an Authorization header between single spaces: a word or a
\* compact token
Word(w) == [w |-> w, tok |-> NoToken]
TokenText(t) == IF t = NoToken THEN Word("") ELSE [w |-> "", tok |-> t]

Request(method, route, id, auth, xUserID, xUsername, body) ==
    [method |-> method, route |-> route, id |-> id, auth |-> auth,
     xUserID |-> xUserID, xUsername |-> xUsername, body |-> body]

Response(status, msg, token, user, salt, data, list) ==
    [status |-> status, msg |-> msg, token |-> token, user |-> user,
     salt |-> salt, data |-> data, list |-> list]
ErrorResponse(status, msg) ==
    Response(status, msg, NoToken, NoUser, EmptyString, NoData, {})
AuthResponse(token, user, salt) ==
    Response(StatusOK, "", token, user, salt, NoData, {})
DataResponse(status, data) ==
    Response(status, "", NoToken, NoUser, EmptyString, data, {})
DataListResponse(list) ==
    Response(StatusOK, "", NoToken, NoUser, EmptyString, NoData, list)
NoContentResponse ==
    Response(StatusNoContent, "", NoToken, NoUser, EmptyString, NoData, {})

(***************************************************************************)
(* internal/storage: MemoryStorage                                         *)
(***************************************************************************)
\* a store that puts the user under its username whether or not one is there
CreateUserOverwrite(us, user) ==
    [err |-> "", users |-> [n \in DOMAIN us \cup {user.Username} |->
                              IF n = user.Username THEN user ELSE us[n]]]

CreateUser(us, user) ==
    IF user.Username \in DOMAIN us
    THEN [err |-> "user already exists", users |-> us]
    ELSE [err |-> "", users |-> [n \in DOMAIN us \cup {user.Username} |->
                                   IF n = user.Username THEN user ELSE us[n]]]

GetUserByUsername(us, username) ==
    IF username \in DOMAIN us
    THEN [err |-> "", user |-> us[username]]
    ELSE [err |-> "user not found", user |-> NoUser]

CreateData(st, data) ==
    [err |-> "", store |-> [i \in DOMAIN st \cup {data.ID} |->
                              IF i = data.ID THEN data ELSE st[i]]]

GetDataByID(st, dataID) ==
    IF dataID \in DOMAIN st
    THEN [err |-> "", data |-> st[dataID]]
    ELSE [err |-> "data not found", data |-> NoData]

\* a listing that does not compare the owner
GetDataByUserIDUnfiltered(st, userID) ==
    [err |-> "", list |-> {st[i] : i \in DOMAIN st}]

GetDataByUserID(st, userID) ==
    [err |-> "", list |-> {st[i] : i \in {j \in DOMAIN st : st[j].UserID = userID}}]

\* a store that writes the record whether or not the id is there
UpdateDataUpsert(st, data) ==
    [err |-> "", store |-> [i \in DOMAIN st \cup {data.ID} |->
                              IF i = data.ID THEN data ELSE st[i]]]

\* a store that keeps only the record it was given
UpdateDataDropsOthers(st, data) ==
    IF data.ID \notin DOMAIN st
    THEN [err |-> "data not found", store |-> st]
    ELSE [err |-> "", store |-> [i \in {data.ID} |-> data]]

UpdateData(st, data) ==
    IF data.ID \notin DOMAIN st
    THEN [err |-> "data not found", store |-> st]
    ELSE [err |-> "", store |-> [st EXCEPT ![data.ID] = data]]

DeleteData(st, dataID) ==
    IF dataID \notin DOMAIN st
    THEN [err |-> "data not found", store |-> st]
    ELSE [err |-> "", store |-> [i \in DOMAIN st \ {dataID} |-> st[i]]]

(***************************************************************************)
(* internal/auth: AuthMiddleware                                           *)
(***************************************************************************)
\* what the middleware hands on: whether next was called, the response it
\* wrote itself otherwise, and the request as next sees it
Gate(pass, resp, req, tokenErr) ==
    [pass |-> pass, resp |-> resp, req |-> req, tokenErr |-> tokenErr]

\* a middleware that accepts any two-field header, whatever the scheme word
AuthMiddlewareAnyScheme(req, t) ==
    IF req.auth = <<>>
    THEN Gate(FALSE, ErrorResponse(StatusUnauthorized, "Authorization header required"), req, "")
    ELSE IF Len(req.auth) # 2
    THEN Gate(FALSE, ErrorResponse(StatusUnauthorized, "Invalid authorization header format"), req, "")
    ELSE LET claims == ValidateToken(JWTSecret, req.auth[2].tok, t) IN
         IF claims.err # ""
         THEN Gate(FALSE, ErrorResponse(StatusUnauthorized, "Invalid token"), req, claims.err)
         ELSE Gate(TRUE, ErrorResponse(0, ""),
                   [req EXCEPT !.xUserID = UUIDString(claims.userID),
                               !.xUsername = PlainText(claims.username)], "")

\* a middleware that adds the identity headers after the client's own
\* (Header.Add), so that Header.Get still returns the client's value
AuthMiddlewareAddHeader(req, t) ==
    IF req.auth = <<>>
    THEN Gate(FALSE, ErrorResponse(StatusUnauthorized, "Authorization header required"), req, "")
    ELSE IF Len(req.auth) # 2 \/ req.auth[1] # Word("Bearer")
    THEN Gate(FALSE, ErrorResponse(StatusUnauthorized, "Invalid authorization header format"), req, "")
    ELSE LET claims == ValidateToken(JWTSecret, req.auth[2].tok, t) IN
         IF claims.err # ""
         THEN Gate(FALSE, ErrorResponse(StatusUnauthorized, "Invalid token"), req, claims.err)
         ELSE Gate(TRUE, ErrorResponse(0, ""),
                   [req EXCEPT !.xUserID = IF req.xUserID = PlainText("")
                                            THEN UUIDString(claims.userID)
                                            ELSE req.xUserID,
                               !.xUsername = IF req.xUsername = PlainText("")
                                             THEN PlainText(claims.username)
                                             ELSE req.xUsername], "")

\* a middleware that sets X-Username only and leaves X-User-ID as it came
AuthMiddlewareSetUsernameOnly(req, t) ==
    IF req.auth = <<>>
    THEN Gate(FALSE, ErrorResponse(StatusUnauthorized, "Authorization header required"), req, "")
    ELSE IF Len(req.auth) # 2 \/ req.auth[1] # Word("Bearer")
    THEN Gate(FALSE, ErrorResponse(StatusUnauthorized, "Invalid authorization header format"), req, "")
    ELSE LET claims == ValidateToken(JWTSecret, req.auth[2].tok, t) IN
         IF claims.err # ""
         THEN Gate(FALSE, ErrorResponse(StatusUnauthorized, "Invalid token"), req, claims.err)
         ELSE Gate(TRUE, ErrorResponse(0, ""),
                   [req EXCEPT !.xUsername = PlainText(claims.username)], "")

\* a middleware that turns away only tokens that are not the issuer's, and
\* takes the claims of an expired one as they are
AuthMiddlewareExpiredPasses(req, t) ==
    IF req.auth = <<>>
    THEN Gate(FALSE, ErrorResponse(StatusUnauthorized, "Authorization header required"), req, "")
    ELSE IF Len(req.auth) # 2 \/ req.auth[1] # Word("Bearer")
    THEN Gate(FALSE, ErrorResponse(StatusUnauthorized, "Invalid authorization header format"), req, "")
    ELSE LET claims == ValidateToken(JWTSecret, req.auth[2].tok, t) IN
         IF claims.err = "ErrInvalidToken"
         THEN Gate(FALSE, ErrorResponse(StatusUnauthorized, "Invalid token"), req, claims.err)
         ELSE Gate(TRUE, ErrorResponse(0, ""),
                   [req EXCEPT !.xUserID = UUIDString(req.auth[2].tok.userID),
                               !.xUsername = PlainText(req.auth[2].tok.username)], "")

\* req.auth is the header split at single spaces; an absent header and an
\* empty one are both the empty sequence
AuthMiddleware(req, t) ==
    IF req.auth = <<>>
    THEN Gate(FALSE, ErrorResponse(StatusUnauthorized, "Authorization header required"), req, "")
    ELSE IF Len(req.auth) # 2 \/ req.auth[1] # Word("Bearer")
    THEN Gate(FALSE, ErrorResponse(StatusUnauthorized, "Invalid authorization header format"), req, "")
    ELSE LET claims == ValidateToken(JWTSecret, req.auth[2].tok, t) IN
         IF claims.err # ""
         THEN Gate(FALSE, ErrorResponse(StatusUnauthorized, "Invalid token"), req, claims.err)
         ELSE Gate(TRUE, ErrorResponse(0, ""),
                   [req EXCEPT !.xUserID = UUIDString(claims.userID),
                               !.xUsername = PlainText(claims.username)], "")

(***************************************************************************)
(* internal/server: the handlers                                           *)
(***************************************************************************)
\* a handler's outcome: the response and the storage after it
Handled(resp, us, st) == [resp |-> resp, users |-> us, store |-> st]

\* env: the values the handler draws itself: uuid.New(), the random salt,
\* time.Now()
Env(uuid, salt, t) == [uuid |-> uuid, salt |-> salt, now |-> t]

handleRegister(req, env, us, st) ==
    IF ~req.body.valid
    THEN Handled(ErrorResponse(StatusBadRequest, "Invalid request body"), us, st)
    ELSE LET made == NewCryptoManager(req.body.MasterPassword, env.salt) IN
    IF made.err # ""
    THEN Handled(ErrorResponse(500, "Failed to initialize encryption"), us, st)
    ELSE LET user == User(env.uuid, req.body.Username,
                          BcryptHash(req.body.Password),
                          BcryptHash(req.body.MasterPassword),
                          GetSaltBase64(made.cm), env.now)
             created == CreateUser(us, user) IN
    IF created.err # ""
    THEN Handled(ErrorResponse(StatusConflict, "User already exists"), us, st)
    ELSE Handled(AuthResponse(GenerateToken(JWTSecret, TokenExpiry, user.ID,
                                            user.Username, env.now),
                              user, user.Salt),
                 created.users, st)

\* a login that does not compare the password
handleLoginNoPasswordCheck(req, env, us, st) ==
    IF ~req.body.valid
    THEN Handled(ErrorResponse(StatusBadRequest, "Invalid request body"), us, st)
    ELSE LET found == GetUserByUsername(us, req.body.Username) IN
    IF found.err # ""
    THEN Handled(ErrorResponse(StatusUnauthorized, "Invalid credentials"), us, st)
    ELSE Handled(AuthResponse(GenerateToken(JWTSecret, TokenExpiry,
                                            found.user.ID, found.user.Username,
                                            env.now),
                              found.user, found.user.Salt),
                 us, st)

\* a login that tells an unknown username from a wrong password
handleLoginUserNotFound(req, env, us, st) ==
    IF ~req.body.valid
    THEN Handled(ErrorResponse(StatusBadRequest, "Invalid request body"), us, st)
    ELSE LET found == GetUserByUsername(us, req.body.Username) IN
    IF found.err # ""
    THEN Handled(ErrorResponse(StatusNotFound, "User not found"), us, st)
    ELSE IF ~BcryptMatches(found.user.Password, req.body.Password)
    THEN Handled(ErrorResponse(StatusUnauthorized, "Invalid credentials"), us, st)
    ELSE Handled(AuthResponse(GenerateToken(JWTSecret, TokenExpiry,
                                            found.user.ID, found.user.Username,
                                            env.now),
                              found.user, found.user.Salt),
                 us, st)

\* a login that answers with a freshly generated salt
handleLoginFreshSalt(req, env, us, st) ==
    IF ~req.body.valid
    THEN Handled(ErrorResponse(StatusBadRequest, "Invalid request body"), us, st)
    ELSE LET found == GetUserByUsername(us, req.body.Username) IN
    IF found.err # ""
    THEN Handled(ErrorResponse(StatusUnauthorized, "Invalid credentials"), us, st)
    ELSE IF ~BcryptMatches(found.user.Password, req.body.Password)
    THEN Handled(ErrorResponse(StatusUnauthorized, "Invalid credentials"), us, st)
    ELSE Handled(AuthResponse(GenerateToken(JWTSecret, TokenExpiry,
                                            found.user.ID, found.user.Username,
                                            env.now),
                              found.user,
                              Base64Encode(Bytes(SaltSize, env.salt))),
                 us, st)

handleLogin(req, env, us, st) ==
    IF ~req.body.valid
    THEN Handled(ErrorResponse(StatusBadRequest, "Invalid request body"), us, st)
    ELSE LET found == GetUserByUsername(us, req.body.Username) IN
    IF found.err # ""
    THEN Handled(ErrorResponse(StatusUnauthorized, "Invalid credentials"), us, st)
    ELSE IF ~BcryptMatches(found.user.Password, req.body.Password)
    THEN Handled(ErrorResponse(StatusUnauthorized, "Invalid credentials"), us, st)
    ELSE Handled(AuthResponse(GenerateToken(JWTSecret, TokenExpiry,
                                            found.user.ID, found.user.Username,
                                            env.now),
                              found.user, found.user.Salt),
                 us, st)

handleGetData(req, env, us, st) ==
    LET userID == UUIDParse(req.xUserID) IN
    IF userID.err # ""
    THEN Handled(ErrorResponse(StatusBadRequest, "Invalid user ID"), us, st)
    ELSE Handled(DataListResponse(GetDataByUserID(st, userID.id).list), us, st)

handleCreateData(req, env, us, st) ==
    LET userID == UUIDParse(req.xUserID) IN
    IF userID.err # ""
    THEN Handled(ErrorResponse(StatusBadRequest, "Invalid user ID"), us, st)
    ELSE IF ~req.body.valid
    THEN Handled(ErrorResponse(StatusBadRequest, "Invalid request body"), us, st)
    ELSE LET data == Data(env.uuid, userID.id, req.body.Type, req.body.Name,
                          req.body.Description, req.body.Data,
                          req.body.Metadata, env.now, env.now) IN
         Handled(DataResponse(StatusCreated, data), us, CreateData(st, data).store)

\* a lookup by id that never compares the owner
handleGetDataByIDNoOwnerCheck(req, env, us, st) ==
    LET dataID == UUIDParse(req.id)
        userID == UUIDParse(req.xUserID) IN
    IF dataID.err # ""
    THEN Handled(ErrorResponse(StatusBadRequest, "Invalid data ID"), us, st)
    ELSE IF userID.err # ""
    THEN Handled(ErrorResponse(StatusBadRequest, "Invalid user ID"), us, st)
    ELSE LET got == GetDataByID(st, dataID.id) IN
    IF got.err # ""
    THEN Handled(ErrorResponse(StatusNotFound, "Data not found"), us, st)
    ELSE Handled(DataResponse(StatusOK, got.data), us, st)

handleGetDataByID(req, env, us, st) ==
    LET dataID == UUIDParse(req.id)
        userID == UUIDParse(req.xUserID) IN
    IF dataID.err # ""
    THEN Handled(ErrorResponse(StatusBadRequest, "Invalid data ID"), us, st)
    ELSE IF userID.err # ""
    THEN Handled(ErrorResponse(StatusBadRequest, "Invalid user ID"), us, st)
    ELSE LET got == GetDataByID(st, dataID.id) IN
    IF got.err # ""
    THEN Handled(ErrorResponse(StatusNotFound, "Data not found"), us, st)
    ELSE IF got.data.UserID # userID.id
    THEN Handled(ErrorResponse(StatusForbidden, "Access denied"), us, st)
    ELSE Handled(DataResponse(StatusOK, got.data), us, st)

handleUpdateData(req, env, us, st) ==
    LET dataID == UUIDParse(req.id)
        userID == UUIDParse(req.xUserID) IN
    IF dataID.err # ""
    THEN Handled(ErrorResponse(StatusBadRequest, "Invalid data ID"), us, st)
    ELSE IF userID.err # ""
    THEN Handled(ErrorResponse(StatusBadRequest, "Invalid user ID"), us, st)
    ELSE IF ~req.body.valid
    THEN Handled(ErrorResponse(StatusBadRequest, "Invalid request body"), us, st)
    ELSE LET got == GetDataByID(st, dataID.id) IN
    IF got.err # ""
    THEN Handled(ErrorResponse(StatusNotFound, "Data not found"), us, st)
    ELSE IF got.data.UserID # userID.id
    THEN Handled(ErrorResponse(StatusForbidden, "Access denied"), us, st)
    ELSE LET data == [got.data EXCEPT !.Type = req.body.Type,
                                      !.Name = req.body.Name,
                                      !.Description = req.body.Description,
                                      !.Data = req.body.Data,
                                      !.Metadata = req.body.Metadata,
                                      !.UpdatedAt = env.now]
             updated == UpdateData(st, data) IN
         IF updated.err # ""
         THEN Handled(ErrorResponse(500, "Failed to update data"), us, st)
         ELSE Handled(DataResponse(StatusOK, data), us, updated.store)

\* handleUpdateData up to its call of UpdateData: the checks, the lookup, and
\* the assignments to the record GetDataByID handed out; resp is the answer
\* when it stops there
updateLoad(req, env, st) ==
    LET dataID == UUIDParse(req.id)
        userID == UUIDParse(req.xUserID) IN
    IF dataID.err # ""
    THEN [ok |-> FALSE, resp |-> ErrorResponse(StatusBadRequest, "Invalid data ID"), data |-> NoData]
    ELSE IF userID.err # ""
    THEN [ok |-> FALSE, resp |-> ErrorResponse(StatusBadRequest, "Invalid user ID"), data |-> NoData]
    ELSE IF ~req.body.valid
    THEN [ok |-> FALSE, resp |-> ErrorResponse(StatusBadRequest, "Invalid request body"), data |-> NoData]
    ELSE LET got == GetDataByID(st, dataID.id) IN
    IF got.err # ""
    THEN [ok |-> FALSE, resp |-> ErrorResponse(StatusNotFound, "Data not found"), data |-> NoData]
    ELSE IF got.data.UserID # userID.id
    THEN [ok |-> FALSE, resp |-> ErrorResponse(StatusForbidden, "Access denied"), data |-> NoData]
    ELSE [ok |-> TRUE, resp |-> ErrorResponse(0, ""),
          data |-> [got.data EXCEPT !.Type = req.body.Type,
                                    !.Name = req.body.Name,
                                    !.Description = req.body.Description,
                                    !.Data = req.body.Data,
                                    !.Metadata = req.body.Metadata,
                                    !.UpdatedAt = env.now]]

\* the fields handleUpdateData assigns, in the order of its statements
UpdateFields == <<"Type", "Name", "Description", "Data", "Metadata", "UpdatedAt">>

\* an update handler between GetDataByID and UpdateData: its request as sent
\* and as the gate passed it on, the record as GetDataByID returned it, the
\* record as it is once every field is assigned, how many of the assignments
\* are done, and when it started
Inflight(req, seen, was, data, t) ==
    [busy |-> TRUE, req |-> req, seen |-> seen, was |-> was, data |-> data,
     step |-> 0, at |-> t]
NoInflight ==
    [busy |-> FALSE,
     req |-> Request("", "", PlainText(""), <<>>, PlainText(""), PlainText(""), NoBody),
     seen |-> Request("", "", PlainText(""), <<>>, PlainText(""), PlainText(""), NoBody),
     was |-> NoData, data |-> NoData, step |-> 0, at |-> 0]

handleDeleteData(req, env, us, st) ==
    LET dataID == UUIDParse(req.id)
        userID == UUIDParse(req.xUserID) IN
    IF dataID.err # ""
    THEN Handled(ErrorResponse(StatusBadRequest, "Invalid data ID"), us, st)
    ELSE IF userID.err # ""
    THEN Handled(ErrorResponse(StatusBadRequest, "Invalid user ID"), us, st)
    ELSE LET got == GetDataByID(st, dataID.id) IN
    IF got.err # ""
    THEN Handled(ErrorResponse(StatusNotFound, "Data not found"), us, st)
    ELSE IF got.data.UserID # userID.id
    THEN Handled(ErrorResponse(StatusForbidden, "Access denied"), us, st)
    ELSE LET deleted == DeleteData(st, dataID.id) IN
         IF deleted.err # ""
         THEN Handled(ErrorResponse(500, "Failed to delete data"), us, st)
         ELSE Handled(NoContentResponse, us, deleted.store)

\* one request and everything that happened to it: the response, the handler
\* that ran (if any), the identity headers that handler saw, the error of
\* ValidateToken, and the time
Exchange(req, resp, handler, seen, tokenErr, t) ==
    [req |-> req, resp |-> resp, handler |-> handler,
     seenUserID |-> seen.xUserID, seenUsername |-> seen.xUsername,
     tokenErr |-> tokenErr, at |-> t]

Served(ex, h) == [ex |-> ex, users |-> h.users, store |-> h.store]

\* the handler name has run on the request as the gate passed it on
Ran(req, name, seen, t, h) ==
    Served(Exchange(req, h.resp, name, seen, "", t), h)

\* the subrouter behind the gate
Protected(req, gate, env, us, st) ==
    IF ~gate.pass
    THEN Served(Exchange(req, gate.resp, "", req, gate.tokenErr, env.now),
                Handled(gate.resp, us, st))
    ELSE CASE req.route = "data" /\ req.method = "GET" ->
                 Ran(req, "handleGetData", gate.req, env.now,
                     handleGetData(gate.req, env, us, st))
           [] req.route = "data" /\ req.method = "POST" ->
                 Ran(req, "handleCreateData", gate.req, env.now,
                     handleCreateData(gate.req, env, us, st))
           [] req.route = "data/{id}" /\ req.method = "GET" ->
                 Ran(req, "handleGetDataByID", gate.req, env.now,
                     handleGetDataByID(gate.req, env, us, st))
           [] req.route = "data/{id}" /\ req.method = "PUT" ->
                 Ran(req, "handleUpdateData", gate.req, env.now,
                     handleUpdateData(gate.req, env, us, st))
           [] OTHER ->
                 Ran(req, "handleDeleteData", gate.req, env.now,
                     handleDeleteData(gate.req, env, us, st))

\* RegisterRoutes: the two open routes, and the subrouter behind the gate
ServeHTTP(req, env, us, st) ==
    IF req.route = "register"
    THEN Ran(req, "handleRegister", req, env.now, handleRegister(req, env, us, st))
    ELSE IF req.route = "login"
    THEN Ran(req, "handleLogin", req, env.now, handleLogin(req, env, us, st))
    ELSE Protected(req, AuthMiddleware(req, env.now), env, us, st)

(***************************************************************************)
(* internal/client: Client, the HTTP calls                                 *)
(***************************************************************************)
\* the outcome of one client call: the error it returns, the response it
\* parsed, the requests it put on the wire, the exchanges the server handled
\* and the storage afterwards
Called(err, resp, sent, exs, us, st) ==
    [err |-> err, resp |-> resp, sent |-> sent, exs |-> exs,
     users |-> us, store |-> st]

\* httpClient.Do and the status check shared by every call: net = FALSE is a
\* transport failure before the request reaches the server
Answered(req, accepted, served) ==
    Called(IF served.ex.resp.status \notin accepted THEN "server error" ELSE "",
           served.ex.resp, <<req>>, <<served.ex>>, served.users, served.store)

\* a call that sends the request a second time when the transport failed
DoResendOnFailure(req, accepted, net, env, us, st) ==
    IF ~net
    THEN Called("request failed", ErrorResponse(0, ""), <<req, req>>, <<>>, us, st)
    ELSE Answered(req, accepted, ServeHTTP(req, env, us, st))

Do(req, accepted, net, env, us, st) ==
    IF ~net
    THEN Called("request failed", ErrorResponse(0, ""), <<req>>, <<>>, us, st)
    ELSE Answered(req, accepted, ServeHTTP(req, env, us, st))

NoHeader == PlainText("")
Bearer(token) == <<Word("Bearer"), TokenText(token)>>

ClientRegister(username, password, masterPassword, net, env, us, st) ==
    Do(Request("POST", "register", NoHeader, <<>>, NoHeader, NoHeader,
               UserRequest(username, password, masterPassword)),
       {StatusOK, StatusCreated}, net, env, us, st)

ClientLogin(username, password, net, env, us, st) ==
    Do(Request("POST", "login", NoHeader, <<>>, NoHeader, NoHeader,
               LoginRequest(username, password)),
       {StatusOK, StatusCreated}, net, env, us, st)

ClientGetData(token, net, env, us, st) ==
    Do(Request("GET", "data", NoHeader, Bearer(token), NoHeader, NoHeader, NoBody),
       {StatusOK}, net, env, us, st)

ClientCreateData(token, dataReq, net, env, us, st) ==
    Do(Request("POST", "data", NoHeader, Bearer(token), NoHeader, NoHeader, dataReq),
       {StatusCreated}, net, env, us, st)

ClientGetDataByID(token, id, net, env, us, st) ==
    Do(Request("GET", "data/{id}", id, Bearer(token), NoHeader, NoHeader, NoBody),
       {StatusOK}, net, env, us, st)

ClientUpdateData(token, id, dataReq, net, env, us, st) ==
    Do(Request("PUT", "data/{id}", id, Bearer(token), NoHeader, NoHeader, dataReq),
       {StatusOK}, net, env, us, st)

ClientDeleteData(token, id, net, env, us, st) ==
    Do(Request("DELETE", "data/{id}", id, Bearer(token), NoHeader, NoHeader, NoBody),
       {StatusNoContent}, net, env, us, st)

(***************************************************************************)
(* internal/client: ClientSession                                          *)
(***************************************************************************)
ErrNotAuthenticated == "session not authenticated - please login first"

Session(cryptoManager, masterPassword) ==
    [cryptoManager |-> cryptoManager, masterPassword |-> masterPassword]
NewClientSession == Session(NilCryptoManager, "")

SetCryptoManager(cryptoManager, masterPassword) ==
    Session(cryptoManager, masterPassword)

IsAuthenticated(s) == s.cryptoManager # NilCryptoManager

NotAuthenticated(us, st) ==
    Called(ErrNotAuthenticated, ErrorResponse(0, ""), <<>>, <<>>, us, st)

\* a List that goes to the server whatever the session holds
SessionListNoGuard(s, token, net, env, us, st) ==
    ClientGetData(token, net, env, us, st)

SessionList(s, token, net, env, us, st) ==
    IF ~IsAuthenticated(s) THEN NotAuthenticated(us, st)
    ELSE ClientGetData(token, net, env, us, st)

SessionGet(s, token, id, net, env, us, st) ==
    IF ~IsAuthenticated(s) THEN NotAuthenticated(us, st)
    ELSE ClientGetDataByID(token, id, net, env, us, st)

SessionCreate(s, token, dataReq, net, env, us, st) ==
    IF ~IsAuthenticated(s) THEN NotAuthenticated(us, st)
    ELSE ClientCreateData(token, dataReq, net, env, us, st)

SessionUpdate(s, token, id, dataReq, net, env, us, st) ==
    IF ~IsAuthenticated(s) THEN NotAuthenticated(us, st)
    ELSE ClientUpdateData(token, id, dataReq, net, env, us, st)

SessionDelete(s, token, id, net, env, us, st) ==
    IF ~IsAuthenticated(s) THEN NotAuthenticated(us, st)
    ELSE ClientDeleteData(token, id, net, env, us, st)

(***************************************************************************)
(* internal/client: the typed record contents                              *)
(***************************************************************************)
\* CreateLoginPasswordData, CreateTextData, CreateBinaryData,
\* CreateBankCardData: entry is the first thing the user types (the login,
\* the text, the file, the card number); the result is the content to
\* encrypt and the metadata string
Content(dataContent, metadata) ==
    [dataContent |-> dataContent, metadata |-> metadata]

CreateLoginPasswordData(entry) ==
    Content(PlainBytes(Plain("json", entry)), Metadata("Login: %s, URL: %s", entry))
CreateTextData(entry) ==
    Content(PlainBytes(Plain("json", entry)), Metadata("Length: %d characters", ""))
CreateBinaryData(entry) ==
    Content(PlainBytes(Plain("base64", entry)), Metadata("BinaryData", ""))
CreateBankCardData(entry) ==
    Content(PlainBytes(Plain("json", entry)), Metadata("Card: %s, Bank: %s", entry))

(***************************************************************************)
(* State                                                                   *)
(***************************************************************************)
\* config: the client's Config struct; configFile: what SaveConfig last wrote
Config(token, salt) == [Token |-> token, Salt |-> salt]

\* what the user typed for a command
Args(username, password, master, id, type, entry) ==
    [username |-> username, password |-> password, master |-> master,
     id |-> id, type |-> type, entry |-> entry]
NoArgs == Args("", "", "", NoHeader, "", "")

\* lastCmd: the last client command: its arguments, the error it returned
\* (the innermost one), the requests it put on the wire, and the plaintext it
\* printed or wrote to a file
Cmd(op, args, err, sent, shown) ==
    [op |-> op, args |-> args, err |-> err, sent |-> sent, shown |-> shown]

\* a line read from standard input, or end of input
Scan(ok, text) == [ok |-> ok, text |-> text]

Init ==
    /\ users = [n \in {} |-> NoUser]
    /\ store = [i \in {} |-> NoData]
    /\ now = 0
    /\ session = NewClientSession
    /\ cliToken = NoToken
    /\ config = Config(NoToken, EmptyString)
    /\ configFile = Config(NoToken, EmptyString)
    /\ lastCmd = Cmd("", NoArgs, "", <<>>, NoPlain)
    /\ http = <<>>
    /\ regSalt = [n \in Usernames |-> EmptyString]
    /\ nextData = 1
    /\ jwtToken = NoToken
    /\ jwtClaims = NoValidation
    /\ managers = [c \in ManagerNames |-> NilCryptoManager]
    /\ envelope = NoEnvelope
    /\ decrypted = NoDecrypted
    /\ inflight = NoInflight
    /\ built = NoBuilt
    /\ verified = NoVerified

\* regSalt: for each username, the salt in the response to its registration
RegSaltAfter(rs, exs) ==
    [n \in DOMAIN rs |->
       IF \E i \in DOMAIN exs : /\ exs[i].handler = "handleRegister"
                                /\ exs[i].resp.status = StatusOK
                                /\ exs[i].req.body.Username = n
       THEN LET i == CHOOSE i \in DOMAIN exs : /\ exs[i].handler = "handleRegister"
                                               /\ exs[i].resp.status = StatusOK
                                               /\ exs[i].req.body.Username = n
            IN exs[i].resp.salt
       ELSE rs[n]]

\* the identifiers the next uuid.New() calls return
NewUserID == UserID(Cardinality(DOMAIN users) + 1)
NewDataID == DataID(nextData)
\* rand.Read for the next registration's salt: a value no earlier one drew
NewSalt == Cardinality(DOMAIN users) + 1

\* the end of a client command
Return(cmd, exs, us, st, sess, tok, cfg, file) ==
    /\ lastCmd' = cmd
    /\ http' = exs
    /\ users' = us
    /\ store' = st
    /\ session' = sess
    /\ cliToken' = tok
    /\ config' = cfg
    /\ configFile' = file
    /\ regSalt' = RegSaltAfter(regSalt, exs)
    /\ nextData' = IF NewDataID \in DOMAIN st THEN nextData + 1 ELSE nextData
    /\ UNCHANGED <<now, issuerVars, cryptoVars, inflight, buildVars>>

\* a command that ends with an error before or after its calls, the session
\* and the config as they were
Fail(op, args, err, called) ==
    Return(Cmd(op, args, err, called.sent, NoPlain), called.exs,
           called.users, called.store, session, cliToken, config, configFile)
NotCalled == Called("", ErrorResponse(0, ""), <<>>, <<>>, users, store)

(***************************************************************************)
(* internal/client: the commands                                           *)
(* (\E x \in {e} : A binds x to the value of e in the action A)            *)
(***************************************************************************)
\* the common end of RegisterCommand and LoginCommand once the server has
\* answered, kept without the final SetToken
AuthenticateNoSetToken(op, args, called, masterPassword, saveOK) ==
    LET decoded == Base64Decode(called.resp.salt) IN
    IF decoded.err # "" THEN Fail(op, args, "failed to decode salt", called)
    ELSE LET made == NewCryptoManagerWithSalt(masterPassword, decoded.bytes) IN
    IF made.err # "" THEN Fail(op, args, "failed to initialize encryption", called)
    ELSE LET sess == SetCryptoManager(made.cm, masterPassword)
             cfg == Config(called.resp.token, called.resp.salt) IN
         IF ~saveOK
         THEN Return(Cmd(op, args, "failed to save config", called.sent, NoPlain),
                     called.exs, called.users, called.store,
                     sess, cliToken, cfg, configFile)
         ELSE Return(Cmd(op, args, "", called.sent, NoPlain),
                     called.exs, called.users, called.store,
                     sess, cliToken, cfg, cfg)

\* the common end of RegisterCommand and LoginCommand once the server has
\* answered: decode the salt, build the cipher, keep it, save the config,
\* keep the token
Authenticate(op, args, called, masterPassword, saveOK) ==
    LET decoded == Base64Decode(called.resp.salt) IN
    IF decoded.err # "" THEN Fail(op, args, "failed to decode salt", called)
    ELSE LET made == NewCryptoManagerWithSalt(masterPassword, decoded.bytes) IN
    IF made.err # "" THEN Fail(op, args, "failed to initialize encryption", called)
    ELSE LET sess == SetCryptoManager(made.cm, masterPassword)
             cfg == Config(called.resp.token, called.resp.salt) IN
         IF ~saveOK
         THEN Return(Cmd(op, args, "failed to save config", called.sent, NoPlain),
                     called.exs, called.users, called.store,
                     sess, cliToken, cfg, configFile)
         ELSE Return(Cmd(op, args, "", called.sent, NoPlain),
                     called.exs, called.users, called.store,
                     sess, called.resp.token, cfg, cfg)

RegisterCommand(username, password, scan, net, randSalt, saveOK) ==
    LET args == Args(username, password, scan.text, NoHeader, "", "") IN
    IF username = "" \/ password = ""
    THEN Fail("register", args, "username and password are required", NotCalled)
    ELSE IF ~scan.ok
    THEN Fail("register", args, "failed to read master password", NotCalled)
    ELSE IF Len(scan.text) < MinMasterPasswordLen
    THEN Fail("register", args, "master password must be at least 8 characters long", NotCalled)
    ELSE \E called \in {ClientRegister(username, password, scan.text, net,
                                      Env(NewUserID, randSalt, now), users, store)} :
         IF called.err # "" THEN Fail("register", args, called.err, called)
         ELSE Authenticate("register", args, called, scan.text, saveOK)

LoginCommand(username, password, scan, net, saveOK) ==
    LET args == Args(username, password, scan.text, NoHeader, "", "") IN
    IF username = "" \/ password = ""
    THEN Fail("login", args, "username and password are required", NotCalled)
    ELSE \E called \in {ClientLogin(username, password, net,
                                   Env(NewUserID, 0, now), users, store)} :
         IF called.err # "" THEN Fail("login", args, called.err, called)
         ELSE IF ~scan.ok
         THEN Fail("login", args, "failed to read master password", called)
         ELSE Authenticate("login", args, called, scan.text, saveOK)

ListCommand(net) ==
    \E called \in {SessionList(session, cliToken, net, Env(NewDataID, 0, now),
                              users, store)} :
    Fail("list", NoArgs, called.err, called)

\* DisplayStructuredData: decrypt, then print
GetCommand(id, net) ==
    LET args == Args("", "", "", id, "", "") IN
    IF id = NoHeader THEN Fail("get", args, "data ID is required", NotCalled)
    ELSE \E called \in {SessionGet(session, cliToken, id, net,
                                  Env(NewDataID, 0, now), users, store)} :
         IF called.err # "" THEN Fail("get", args, called.err, called)
         ELSE \E opened \in {Decrypt(session.cryptoManager, called.resp.data.Data)} :
              IF opened.err # "" THEN Fail("get", args, opened.err, called)
              ELSE Return(Cmd("get", args, "", called.sent, opened.pt),
                          called.exs, called.users, called.store,
                          session, cliToken, config, configFile)

CreateCommand(dataType, name, entry, typed, nonce, net) ==
    LET args == Args("", "", "", NoHeader, dataType, entry) IN
    IF ~IsAuthenticated(session)
    THEN Fail("create", args, ErrNotAuthenticated, NotCalled)
    ELSE IF dataType = "" \/ name = ""
    THEN Fail("create", args, "data type and name are required", NotCalled)
    ELSE IF dataType \notin DataTypes
    THEN Fail("create", args, "unknown data type", NotCalled)
    ELSE IF ~typed
    THEN Fail("create", args, "failed to create data content", NotCalled)
    ELSE LET content == CASE dataType = "login_password" -> CreateLoginPasswordData(entry)
                          [] dataType = "text" -> CreateTextData(entry)
                          [] dataType = "binary" -> CreateBinaryData(entry)
                          [] OTHER -> CreateBankCardData(entry)
             encrypted == Encrypt(session.cryptoManager, content.dataContent, nonce) IN
         IF encrypted.err # "" THEN Fail("create", args, encrypted.err, NotCalled)
         ELSE LET dataReq == DataRequest(dataType, name, "", encrypted.out,
                                         content.metadata) IN
              \E called \in {SessionCreate(session, cliToken, dataReq, net,
                                            Env(NewDataID, 0, now), users, store)} :
              Fail("create", args, called.err, called)

\* an update that goes on to encrypt and send the new content when the
\* current content did not decrypt
UpdateCommandIgnoresDecryptError(id, scan, nonce, netGet, netPut) ==
    LET args == Args("", "", "", id, "", scan.text) IN
    IF ~IsAuthenticated(session)
    THEN Fail("update", args, ErrNotAuthenticated, NotCalled)
    ELSE IF id = NoHeader THEN Fail("update", args, "data ID is required", NotCalled)
    ELSE \E got \in {SessionGet(session, cliToken, id, netGet,
                               Env(NewDataID, 0, now), users, store)} :
    IF got.err # "" THEN Fail("update", args, got.err, got)
    ELSE \E opened \in {Decrypt(session.cryptoManager, got.resp.data.Data)} :
    LET newContent == IF scan.ok THEN scan.text ELSE ""
        encrypted == Encrypt(session.cryptoManager,
                             PlainBytes(Plain("raw", newContent)), nonce) IN
    IF encrypted.err # ""
    THEN Return(Cmd("update", args, encrypted.err, got.sent, opened.pt),
                got.exs, got.users, got.store, session, cliToken, config, configFile)
    ELSE LET data == got.resp.data
             dataReq == DataRequest(data.Type, data.Name, data.Description,
                                    encrypted.out, data.Metadata) IN
         \E put \in {SessionUpdate(session, cliToken, id, dataReq, netPut,
                                   Env(NewDataID, 0, now), got.users, got.store)} :
         Return(Cmd("update", args, put.err, got.sent \o put.sent, opened.pt),
                got.exs \o put.exs, put.users, put.store,
                session, cliToken, config, configFile)

UpdateCommand(id, scan, nonce, netGet, netPut) ==
    LET args == Args("", "", "", id, "", scan.text) IN
    IF ~IsAuthenticated(session)
    THEN Fail("update", args, ErrNotAuthenticated, NotCalled)
    ELSE IF id = NoHeader THEN Fail("update", args, "data ID is required", NotCalled)
    ELSE \E got \in {SessionGet(session, cliToken, id, netGet,
                               Env(NewDataID, 0, now), users, store)} :
    IF got.err # "" THEN Fail("update", args, got.err, got)
    ELSE \E opened \in {Decrypt(session.cryptoManager, got.resp.data.Data)} :
    IF opened.err # "" THEN Fail("update", args, opened.err, got)
    ELSE LET newContent == IF scan.ok THEN scan.text ELSE ""
             encrypted == Encrypt(session.cryptoManager,
                                  PlainBytes(Plain("raw", newContent)), nonce) IN
    IF encrypted.err # ""
    THEN Return(Cmd("update", args, encrypted.err, got.sent, opened.pt),
                got.exs, got.users, got.store, session, cliToken, config, configFile)
    ELSE LET data == got.resp.data
             dataReq == DataRequest(data.Type, data.Name, data.Description,
                                    encrypted.out, data.Metadata) IN
         \E put \in {SessionUpdate(session, cliToken, id, dataReq, netPut,
                                   Env(NewDataID, 0, now), got.users, got.store)} :
         Return(Cmd("update", args, put.err, got.sent \o put.sent, opened.pt),
                got.exs \o put.exs, put.users, put.store,
                session, cliToken, config, configFile)

DeleteCommand(id, scan, net) ==
    LET args == Args("", "", "", id, "", scan.text) IN
    IF id = NoHeader THEN Fail("delete", args, "data ID is required", NotCalled)
    ELSE IF ~scan.ok THEN Fail("delete", args, "failed to read confirmation", NotCalled)
    ELSE IF scan.text \notin {"y", "yes"} THEN Fail("delete", args, "", NotCalled)
    ELSE \E called \in {SessionDelete(session, cliToken, id, net,
                                     Env(NewDataID, 0, now), users, store)} :
         Fail("delete", args, called.err, called)

\* main: a new process loads the saved config, keeps its token, and starts a
\* session without a cipher
Restart ==
    /\ session' = NewClientSession
    /\ config' = configFile
    /\ cliToken' = configFile.Token
    /\ lastCmd' = Cmd("restart", NoArgs, "", <<>>, NoPlain)
    /\ http' = <<>>
    /\ UNCHANGED <<serverVars, now, configFile, issuerVars, cryptoVars, inflight, buildVars>>

\* time passes
Tick ==
    /\ now < MaxTime
    /\ now' = now + 1
    /\ UNCHANGED <<serverVars, clientVars, http, issuerVars, cryptoVars, inflight, buildVars>>

SaveCommand(id, exists, scan, net) ==
    LET args == Args("", "", "", id, "", scan.text) IN
    IF ~IsAuthenticated(session)
    THEN Fail("save", args, ErrNotAuthenticated, NotCalled)
    ELSE IF id = NoHeader THEN Fail("save", args, "data ID is required", NotCalled)
    ELSE \E called \in {SessionGet(session, cliToken, id, net,
                                  Env(NewDataID, 0, now), users, store)} :
    IF called.err # "" THEN Fail("save", args, called.err, called)
    ELSE IF called.resp.data.Type # "binary"
    THEN Fail("save", args, "data is not binary type", called)
    ELSE IF called.resp.data.Metadata.layout # "BinaryData"
    THEN Fail("save", args, "failed to parse binary metadata", called)
    ELSE IF exists /\ ~scan.ok
    THEN Fail("save", args, "failed to read overwrite confirmation", called)
    ELSE IF exists /\ scan.text \notin {"y", "yes"}
    THEN Fail("save", args, "", called)
    ELSE \E opened \in {Decrypt(session.cryptoManager, called.resp.data.Data)} :
    IF opened.err # "" THEN Fail("save", args, opened.err, called)
    ELSE IF opened.pt.form # "base64"
    THEN Fail("save", args, "failed to decode base64 data", called)
    ELSE Return(Cmd("save", args, "", called.sent, opened.pt),
                called.exs, called.users, called.store,
                session, cliToken, config, configFile)

(***************************************************************************)
(* The client program against the server                                   *)
(***************************************************************************)
NoCmd == Cmd("", NoArgs, "", <<>>, NoPlain)

\* runCLI: the loop is back at its prompt, the last command's output and the
\* server's log of its requests are history
Idle == lastCmd = NoCmd /\ http = <<>>
Prompt ==
    /\ ~Idle
    /\ lastCmd' = NoCmd
    /\ http' = <<>>
    /\ UNCHANGED <<serverVars, now, session, cliToken, config, configFile,
                   issuerVars, cryptoVars, inflight, buildVars>>

UsernameInputs == {"alice", ""}
RegisterPasswords == {AccountPassword, ""}
LoginPasswords == {AccountPassword, "wrong", ""}
MasterScans == {Scan(TRUE, m) : m \in MasterInputs} \cup {Scan(FALSE, "")}
ConfirmScans == {Scan(TRUE, "y"), Scan(TRUE, "n"), Scan(FALSE, "")}
ContentScans == {Scan(TRUE, "new"), Scan(TRUE, ""), Scan(FALSE, "")}
TypeInputs == DataTypes \cup {"", "note"}
EntryInputs == Secrets \cup {""}
IdInputs == {UUIDString(DataID(i)) : i \in 1..(nextData - 1)}
               \cup {PlainText("junk"), NoHeader}

Next ==
    \/ /\ Idle
       /\ \E u \in UsernameInputs, p \in RegisterPasswords, scan \in MasterScans,
             net \in BOOLEAN, salt \in Salts, saveOK \in BOOLEAN :
             RegisterCommand(u, p, scan, net, salt, saveOK)
    \/ /\ Idle
       /\ \E u \in UsernameInputs, p \in LoginPasswords, scan \in MasterScans,
             net \in BOOLEAN, saveOK \in BOOLEAN :
             LoginCommand(u, p, scan, net, saveOK)
    \/ /\ Idle
       /\ \E net \in BOOLEAN : ListCommand(net)
    \/ /\ Idle
       /\ \E id \in IdInputs, net \in BOOLEAN : GetCommand(id, net)
    \/ /\ Idle
       /\ nextData <= MaxData
       /\ \E type \in TypeInputs, name \in {"", "name"}, entry \in EntryInputs,
             typed \in BOOLEAN, nonce \in Nonces, net \in BOOLEAN :
             CreateCommand(type, name, entry, typed, nonce, net)
    \/ /\ Idle
       /\ \E id \in IdInputs, scan \in ContentScans, nonce \in Nonces,
             netGet \in BOOLEAN, netPut \in BOOLEAN :
             UpdateCommand(id, scan, nonce, netGet, netPut)
    \/ /\ Idle
       /\ \E id \in IdInputs, scan \in ConfirmScans, net \in BOOLEAN :
             DeleteCommand(id, scan, net)
    \/ /\ Idle
       /\ \E id \in IdInputs, exists \in BOOLEAN, scan \in ConfirmScans,
             net \in BOOLEAN : SaveCommand(id, exists, scan, net)
    \/ /\ Idle
       /\ Restart
    \/ Prompt

Spec == Init /\ [][Next]_vars

(***************************************************************************)
(* The server against arbitrary HTTP clients                               *)
(***************************************************************************)
\* tokens of a user: the one the registration handed out and the one a login
\* at this moment hands out (users register at any moment, so every pair of
\* issue time and present time occurs)
TokensOf(us, n, t) ==
    {GenerateToken(JWTSecret, TokenExpiry, us[n].ID, n, iat) :
       iat \in {us[n].CreatedAt, t}}
\* a token for the same user signed with another secret
Forged(us, n, t) == GenerateToken(OtherSecret, TokenExpiry, us[n].ID, n, t)

\* Authorization headers that are not "Bearer <token>"
BadHeaders(token) ==
    { <<>>,
      <<TokenText(token)>>,
      <<Word("Basic"), TokenText(token)>>,
      <<Word("bearer"), TokenText(token)>>,
      <<Word("Bearer"), TokenText(token), Word("x")>> }

\* identity headers a client may put on its own request
Spoofs(us) ==
    {[id |-> NoHeader, name |-> NoHeader]}
       \cup {[id |-> UUIDString(us[n].ID), name |-> PlainText(n)] : n \in DOMAIN us}

\* request bodies: one for a create, one for an update; NoBody does not decode
ABody == DataRequest("text", "a", "", PlainBytes(Plain("raw", "x")), NoMetadata)
BBody == DataRequest("text", "b", "", PlainBytes(Plain("raw", "y")), NoMetadata)
\* ids in a path: those of the records created so far, and one that is no UUID
RecordIds == {UUIDString(DataID(i)) : i \in 1..(nextData - 1)}
RawIds == RecordIds \cup {PlainText("junk")}
SomeIds == IF RecordIds = {} THEN {PlainText("junk")} ELSE RecordIds

\* one request handled by the server
Serve(req, randSalt, uuid) ==
    \E served \in {ServeHTTP(req, Env(uuid, randSalt, now), users, store)} :
    /\ http' = <<served.ex>>
    /\ users' = served.users
    /\ store' = served.store
    /\ regSalt' = RegSaltAfter(regSalt, <<served.ex>>)
    /\ nextData' = IF NewDataID \in DOMAIN served.store THEN nextData + 1
                   ELSE nextData
    /\ UNCHANGED <<now, clientVars, issuerVars, cryptoVars, inflight, buildVars>>

RawRegister(body, randSalt) ==
    Serve(Request("POST", "register", NoHeader, <<>>, NoHeader, NoHeader, body),
          randSalt, NewUserID)

RawLogin(body) ==
    Serve(Request("POST", "login", NoHeader, <<>>, NoHeader, NoHeader, body),
          0, NewUserID)

RawData(method, route, id, auth, spoof, body) ==
    /\ method = "POST" => nextData <= MaxData
    /\ Serve(Request(method, route, id, auth, spoof.id, spoof.name, body),
             0, NewDataID)

\* the exchange is over
Close ==
    /\ http # <<>>
    /\ http' = <<>>
    /\ UNCHANGED <<serverVars, now, clientVars, issuerVars, cryptoVars, inflight, buildVars>>

\* well-formed headers carrying a token the server issued, and the others
GoodHeaders == {Bearer(token) : token \in UNION {TokensOf(users, n, now) : n \in DOMAIN users}}
OtherHeaders ==
    UNION {BadHeaders(GenerateToken(JWTSecret, TokenExpiry, users[n].ID, n, now))
             \cup {Bearer(Forged(users, n, now))} : n \in DOMAIN users}
      \cup {<<>>, <<Word("Bearer"), Word("invalid-token")>>, <<Word("Bearer"), Word("")>>}
NoSpoof == [id |-> NoHeader, name |-> NoHeader]

ServerNext ==
    \/ /\ http = <<>>
       /\ \E u \in Usernames, m \in {"masterpw1", ""} :
             RawRegister(UserRequest(u, AccountPassword, m), NewSalt)
    \/ /\ http = <<>>
       /\ RawRegister(NoBody, NewSalt)
    \/ /\ http = <<>>
       /\ \E u \in Usernames \cup {"carol"}, p \in {AccountPassword, "wrong"} :
             RawLogin(LoginRequest(u, p))
    \/ /\ http = <<>>
       /\ RawLogin(NoBody)
    \/ /\ http = <<>>
       /\ \E auth \in GoodHeaders, spoof \in Spoofs(users) :
             \/ RawData("GET", "data", NoHeader, auth, spoof, NoBody)
             \/ RawData("POST", "data", NoHeader, auth, spoof, ABody)
             \/ \E id \in RawIds :
                   RawData("GET", "data/{id}", id, auth, spoof, NoBody)
             \/ \E id \in RawIds :
                   RawData("PUT", "data/{id}", id, auth, spoof, BBody)
             \/ \E id \in RawIds :
                   RawData("DELETE", "data/{id}", id, auth, spoof, NoBody)
    \/ /\ http = <<>>
       /\ \E auth \in GoodHeaders :
             \/ RawData("POST", "data", NoHeader, auth, NoSpoof, NoBody)
             \/ \E id \in RawIds :
                   RawData("PUT", "data/{id}", id, auth, NoSpoof, NoBody)
    \/ /\ http = <<>>
       /\ \E auth \in OtherHeaders :
             \/ RawData("GET", "data", NoHeader, auth, NoSpoof, NoBody)
             \/ RawData("POST", "data", NoHeader, auth, NoSpoof, ABody)
             \/ \E id \in SomeIds, m \in {"GET", "DELETE"} :
                   RawData(m, "data/{id}", id, auth, NoSpoof, NoBody)
             \/ \E id \in SomeIds :
                   RawData("PUT", "data/{id}", id, auth, NoSpoof, BBody)
    \/ /\ http = <<>>
       /\ Tick
    \/ Close

ServerSpec == Init /\ [][ServerNext]_vars

(***************************************************************************)
(* A token issuer on its own                                               *)
(***************************************************************************)
IssuerSecrets == {JWTSecret, OtherSecret}
IssuerUserIDs == {UserID(1), UserID(2)}
IssuerUsernames == Usernames \cup {""}

\* manager.GenerateToken(userID, username) on NewJWTManager(secret, TokenExpiry)
JWTGenerate(secret, userID, username) ==
    /\ jwtToken' = GenerateToken(secret, TokenExpiry, userID, username, now)
    /\ UNCHANGED <<serverVars, clientVars, now, http, jwtClaims, cryptoVars, inflight, buildVars>>

\* manager.ValidateToken(token) on NewJWTManager(secret, TokenExpiry)
JWTValidate(secret, token) ==
    /\ jwtClaims' = Validation(secret, token, now, ValidateToken(secret, token, now))
    /\ UNCHANGED <<serverVars, clientVars, now, http, jwtToken, cryptoVars, inflight, buildVars>>

IssuerNext ==
    \/ \E secret \in IssuerSecrets, u \in IssuerUserIDs, n \in IssuerUsernames :
          JWTGenerate(secret, u, n)
    \/ \E secret \in IssuerSecrets, token \in {jwtToken, GarbageToken, NoToken} :
          JWTValidate(secret, token)
    \/ Tick

IssuerSpec == Init /\ [][IssuerNext]_vars

(***************************************************************************)
(* The server with an update handler that other requests overtake          *)
(***************************************************************************)
\* handleUpdateData from the gate to the owner check: GetDataByID hands out
\* the stored record itself
UpdateBegin(auth, id, body) ==
    /\ ~inflight.busy
    /\ \E req \in {Request("PUT", "data/{id}", id, auth, NoHeader, NoHeader, body)} :
       \E gate \in {AuthMiddleware(req, now)} :
       \E loaded \in {updateLoad(gate.req, Env(NewDataID, 0, now), store)} :
          /\ gate.pass
          /\ IF loaded.ok
             THEN /\ inflight' = Inflight(req, gate.req, store[loaded.data.ID],
                                          loaded.data, now)
                  /\ UNCHANGED <<store, http>>
             ELSE /\ http' = <<Exchange(req, loaded.resp, "handleUpdateData",
                                        gate.req, "", now)>>
                  /\ UNCHANGED <<store, inflight>>
    /\ UNCHANGED <<users, regSalt, nextData, now, clientVars, issuerVars,
                   cryptoVars, buildVars>>

\* one of handleUpdateData's assignments: a write, outside the storage's
\* lock, of one field of the record GetDataByID handed out, which is the
\* record in the store for as long as no delete has taken it out
UpdateAssign ==
    /\ inflight.busy
    /\ inflight.step < Len(UpdateFields)
    /\ \E f \in {UpdateFields[inflight.step + 1]} :
          store' = IF inflight.data.ID \in DOMAIN store
                   THEN [store EXCEPT ![inflight.data.ID][f] = inflight.data[f]]
                   ELSE store
    /\ inflight' = [inflight EXCEPT !.step = @ + 1]
    /\ UNCHANGED <<users, regSalt, nextData, now, http, clientVars, issuerVars,
                   cryptoVars, buildVars>>

\* handleUpdateData from its call of UpdateData to its answer
UpdateEnd ==
    /\ inflight.busy
    /\ inflight.step = Len(UpdateFields)
    /\ \E updated \in {UpdateData(store, inflight.data)} :
          /\ store' = updated.store
          /\ http' = <<Exchange(inflight.req,
                                IF updated.err # ""
                                THEN ErrorResponse(500, "Failed to update data")
                                ELSE DataResponse(StatusOK, inflight.data),
                                "handleUpdateData", inflight.seen, "",
                                inflight.at)>>
    /\ inflight' = NoInflight
    /\ UNCHANGED <<users, regSalt, nextData, now, clientVars, issuerVars,
                   cryptoVars, buildVars>>

\* the records created while requests overtake each other
MaxRaceData == 2

RaceNext ==
    \/ /\ http = <<>>
       /\ \E u \in Usernames :
             RawRegister(UserRequest(u, AccountPassword, "masterpw1"), NewSalt)
    \/ /\ http = <<>>
       /\ nextData <= MaxRaceData
       /\ \E auth \in GoodHeaders :
             Serve(Request("POST", "data", NoHeader, auth, NoHeader, NoHeader,
                           ABody), 0, NewDataID)
    \/ /\ http = <<>>
       /\ \E auth \in GoodHeaders, id \in RecordIds :
             \/ RawData("GET", "data/{id}", id, auth, NoSpoof, NoBody)
             \/ RawData("DELETE", "data/{id}", id, auth, NoSpoof, NoBody)
    \/ /\ http = <<>>
       /\ \E auth \in GoodHeaders :
             RawData("GET", "data", NoHeader, auth, NoSpoof, NoBody)
    \/ /\ http = <<>>
       /\ \E auth \in GoodHeaders, id \in RecordIds, body \in {BBody, NoBody} :
             UpdateBegin(auth, id, body)
    \/ /\ http = <<>>
       /\ UpdateAssign
    \/ /\ http = <<>>
       /\ UpdateEnd
    \/ Close

RaceSpec == Init /\ [][RaceNext]_vars

(***************************************************************************)
(* Crypto managers on their own: construct, encrypt, corrupt, decrypt      *)
(***************************************************************************)
CryptoPlains == {Plain("raw", " "), Plain("raw", "")}
\* salts handed to NewCryptoManagerWithSalt: of the right length and too short
GivenSalts == {Bytes(SaltSize, s) : s \in Salts} \cup {Bytes(SaltSize \div 2, 1)}
\* bytes that did not come out of Encrypt
ForeignBytes ==
    {EmptyBytes, PlainBytes(Plain("raw", "4111")),
     PlainBytes(Plain("json", "4111")),
     MarshalEncryptedData(1, Bytes(SaltSize \div 2, 1), NoSealed),
     MarshalEncryptedData(0, Bytes(SaltSize, 1), NoSealed),
     MarshalEncryptedData(1, Bytes(SaltSize, 1), NoSealed)}

\* cm, err := NewCryptoManager(masterPassword)
CryptoNew(c, masterPassword, randSalt) ==
    /\ managers' =
          [managers EXCEPT ![c] = NewCryptoManager(masterPassword, randSalt).cm]
    /\ UNCHANGED <<serverVars, clientVars, now, http, issuerVars, inflight,
                   buildVars, envelope, decrypted>>

\* cm, err := NewCryptoManagerWithSalt(masterPassword, salt)
CryptoNewWithSalt(c, masterPassword, salt) ==
    /\ managers' =
          [managers EXCEPT ![c] = NewCryptoManagerWithSalt(masterPassword, salt).cm]
    /\ UNCHANGED <<serverVars, clientVars, now, http, issuerVars, inflight,
                   buildVars, envelope, decrypted>>

\* encrypted, err := cm.Encrypt(data)
CryptoEncrypt(c, data, nonce) ==
    /\ ~managers[c].nil
    /\ \E res \in {Encrypt(managers[c], PlainBytes(data), nonce)} :
          envelope' = Envelope(res.out, data, managers[c], res.err = "", res.err)
    /\ managers' = [managers EXCEPT
                       ![c] = AfterEncrypt(managers[c], PlainBytes(data), nonce)]
    /\ UNCHANGED <<serverVars, clientVars, now, http, issuerVars, inflight,
                   buildVars, decrypted>>

\* one byte of the envelope's data or nonce is changed
CryptoTamper(field, i) ==
    /\ envelope.made
    /\ envelope.tampered = ""
    /\ \E encData \in {UnmarshalEncryptedData(envelope.bytes)} :
          envelope' =
            [envelope EXCEPT
               !.tampered = field,
               !.bytes =
                  IF field = "data"
                  THEN MarshalEncryptedData(encData.nonce, encData.salt,
                                            FlipData(encData.data, i))
                  ELSE MarshalEncryptedData(FlipNonce(encData.nonce, i),
                                            encData.salt, encData.data)]
    /\ UNCHANGED <<serverVars, clientVars, now, http, issuerVars, inflight,
                   buildVars, managers, decrypted>>

\* bytes from elsewhere are in hand
CryptoReceive(bytes) ==
    /\ envelope' = Envelope(bytes, NoPlain, NilCryptoManager, FALSE, "")
    /\ UNCHANGED <<serverVars, clientVars, now, http, issuerVars, inflight,
                   buildVars, managers, decrypted>>

\* decrypted, err := cm.Decrypt(encrypted)
CryptoDecrypt(c) ==
    /\ ~managers[c].nil
    /\ decrypted' =
          Decrypted(managers[c], envelope, Decrypt(managers[c], envelope.bytes))
    /\ managers' = [managers EXCEPT
                       ![c] = AfterDecrypt(managers[c], envelope.bytes)]
    /\ UNCHANGED <<serverVars, clientVars, now, http, issuerVars, inflight,
                   buildVars, envelope>>

CryptoNext ==
    \/ \E c \in ManagerNames, m \in MasterInputs, s \in Salts :
          CryptoNew(c, m, s)
    \/ \E c \in ManagerNames, m \in MasterInputs, s \in GivenSalts :
          CryptoNewWithSalt(c, m, s)
    \/ \E c \in ManagerNames, p \in CryptoPlains, n \in Nonces :
          CryptoEncrypt(c, p, n)
    \/ \E f \in {"data", "nonce"}, i \in 1..MaxFlip : CryptoTamper(f, i)
    \/ \E b \in ForeignBytes : CryptoReceive(b)
    \/ \E c \in ManagerNames : CryptoDecrypt(c)

CryptoSpec == Init /\ [][CryptoNext]_vars

(***************************************************************************)
(* The constructors and VerifyMasterPassword, called on their own          *)
(***************************************************************************)
\* salts of the right length, too short, too long and empty
BuildSalts ==
    {Bytes(SaltSize, s) : s \in Salts}
       \cup {Bytes(SaltSize \div 2, 1), Bytes(SaltSize + 1, 1), NoBytes}

\* cm, err := NewCryptoManager(masterPassword)
BuildNew(masterPassword, randSalt) ==
    /\ built' = Built("NewCryptoManager", masterPassword, NoBytes,
                      NewCryptoManager(masterPassword, randSalt))
    /\ UNCHANGED <<serverVars, clientVars, now, http, issuerVars, cryptoVars,
                   inflight, verified>>

\* cm, err := NewCryptoManagerWithSalt(masterPassword, salt)
BuildWithSalt(masterPassword, salt) ==
    /\ built' = Built("NewCryptoManagerWithSalt", masterPassword, salt,
                      NewCryptoManagerWithSalt(masterPassword, salt))
    /\ UNCHANGED <<serverVars, clientVars, now, http, issuerVars, cryptoVars,
                   inflight, verified>>

\* ok := VerifyMasterPassword(masterPassword, salt)
Verify(masterPassword, salt) ==
    /\ verified' = Verified(masterPassword, salt,
                            VerifyMasterPassword(masterPassword, salt))
    /\ UNCHANGED <<serverVars, clientVars, now, http, issuerVars, cryptoVars,
                   inflight, built>>

BuildNext ==
    \/ \E m \in MasterInputs, s \in Salts : BuildNew(m, s)
    \/ \E m \in MasterInputs, s \in BuildSalts : BuildWithSalt(m, s)
    \/ \E m \in MasterInputs, s \in BuildSalts : Verify(m, s)

BuildSpec == Init /\ [][BuildNext]_vars

(***************************************************************************)
(* Properties                                                              *)
(***************************************************************************)
DataOps == {"list", "get", "create", "update", "delete"}

\* the command got as far as its call into the session (create and update
\* look at the session first; get and delete first want an id, and delete a
\* confirmation)
ReachesSession(cmd) ==
    CASE cmd.op \in {"list", "create", "update"} -> TRUE
      [] cmd.op = "get" -> cmd.args.id # NoHeader
      [] cmd.op = "delete" -> cmd.args.id # NoHeader /\ cmd.args.entry \in {"y", "yes"}
      [] OTHER -> FALSE

\* C1: while the session holds no cipher, list, get, create, update and
\* delete each fail with ErrNotAuthenticated and put no request on the wire.
C1_NoCipherNoRequest ==
    (lastCmd.op \in DataOps /\ ReachesSession(lastCmd) /\ ~IsAuthenticated(session))
       => /\ lastCmd.err = ErrNotAuthenticated
          /\ lastCmd.sent = <<>>
          /\ http = <<>>

\* a restarted client that kept its token but has no cipher asked for a
\* record by id and was refused
C1_Witness ==
    /\ lastCmd.op = "get"
    /\ lastCmd.args.id = UUIDString(DataID(1))
    /\ ~IsAuthenticated(session)
    /\ cliToken # NoToken
    /\ lastCmd.err = ErrNotAuthenticated
    /\ lastCmd.sent = <<>>

\* the routes behind the gate, and a header of the form "Bearer <token>"
Gated(e) == e.req.route \in {"data", "data/{id}"}
WellFormed(auth) == Len(auth) = 2 /\ auth[1] = Word("Bearer")

\* C2: a request to a gated route whose Authorization header is missing, is
\* not "Bearer <token>", or carries a token the issuer rejects, is answered
\* 401 Unauthorized and no handler runs.
C2_GateRejects ==
    \A i \in DOMAIN http :
       LET e == http[i] IN
       (/\ Gated(e)
        /\ \/ ~WellFormed(e.req.auth)
           \/ ValidateToken(JWTSecret, e.req.auth[2].tok, e.at).err # "")
          => /\ e.resp.status = StatusUnauthorized
             /\ e.handler = ""

\* a token the server issued and still accepts, sent under the scheme
\* "Basic", was turned away
C2_Witness ==
    \E i \in DOMAIN http :
       LET e == http[i] IN
       /\ Gated(e)
       /\ Len(e.req.auth) = 2
       /\ e.req.auth[1] = Word("Basic")
       /\ ValidateToken(JWTSecret, e.req.auth[2].tok, e.at).err = ""
       /\ e.resp.status = StatusUnauthorized
       /\ e.handler = ""

\* C3: a request with a valid token reaches its handler, and the X-User-ID
\* and X-Username the handler sees are the token's claims, whatever identity
\* headers the client sent.
C3_GateSetsIdentity ==
    \A i \in DOMAIN http :
       LET e == http[i] IN
       (/\ Gated(e)
        /\ WellFormed(e.req.auth)
        /\ ValidateToken(JWTSecret, e.req.auth[2].tok, e.at).err = "")
          => /\ e.handler # ""
             /\ e.seenUserID = UUIDString(e.req.auth[2].tok.userID)
             /\ e.seenUsername = PlainText(e.req.auth[2].tok.username)

\* a client sent another user's id and name in its own identity headers
\* along with its valid token, and the handler ran under the token's identity
C3_Witness ==
    \E i \in DOMAIN http :
       LET e == http[i] IN
       /\ Gated(e)
       /\ e.handler # ""
       /\ e.req.xUserID # NoHeader
       /\ e.req.xUserID # UUIDString(e.req.auth[2].tok.userID)
       /\ e.req.xUsername # PlainText(e.req.auth[2].tok.username)
       /\ e.seenUserID = UUIDString(e.req.auth[2].tok.userID)

\* the exchange is a get, update or delete by id of a record in st that the
\* authenticated user does not own
Foreign(e, st) ==
    /\ e.handler \in {"handleGetDataByID", "handleUpdateData", "handleDeleteData"}
    /\ UUIDParse(e.req.id).err = ""
    /\ UUIDParse(e.req.id).id \in DOMAIN st
    /\ st[UUIDParse(e.req.id).id].UserID # UUIDParse(e.seenUserID).id

NoContents(resp) == resp.data = NoData /\ resp.list = {}

\* C4 as stated: a get, update or delete of another user's record is
\* answered 403 Forbidden, returns none of the record and leaves the store
\* as it was.
C4_ForeignRecordForbidden ==
    [][\A i \in DOMAIN http' :
          Foreign(http'[i], store)
             => /\ http'[i].resp.status = StatusForbidden
                /\ NoContents(http'[i].resp)
                /\ store' = store]_vars

\* C4: a get, update or delete of another user's record is refused, with 403
\* Forbidden or, for an update whose body does not decode, with 400 Bad
\* Request; it returns none of the record and leaves the store as it was.
C4_ForeignRecordRefused ==
    [][\A i \in DOMAIN http' :
          Foreign(http'[i], store)
             => /\ \/ http'[i].resp.status = StatusForbidden
                   \/ /\ http'[i].handler = "handleUpdateData"
                      /\ ~http'[i].req.body.valid
                      /\ http'[i].resp.status = StatusBadRequest
                /\ NoContents(http'[i].resp)
                /\ store' = store]_vars

\* a delete of another user's record was answered 403 and the record is
\* still in the store
C4_Witness ==
    \E i \in DOMAIN http :
       /\ Foreign(http[i], store)
       /\ http[i].handler = "handleDeleteData"
       /\ http[i].resp.status = StatusForbidden

\* C5 as stated: no request the client sends carries the master password in
\* plaintext; registration and login carry the username and the account
\* password only.
C5_MasterPasswordNeverSent ==
    \A i \in DOMAIN lastCmd.sent : lastCmd.sent[i].body.MasterPassword = ""

\* C6 as stated: what a create or update request carries of the record's
\* contents is an envelope produced by Encrypt, never the typed text itself.
C6_ContentsLeaveEncrypted ==
    \A i \in DOMAIN lastCmd.sent :
       LET r == lastCmd.sent[i] IN
       (r.method \in {"POST", "PUT"} /\ r.route \in {"data", "data/{id}"})
          => /\ r.body.Data.fmt = "envelope"
             /\ r.body.Metadata.shows = ""

\* C7: when a register or login command succeeds, the session holds the
\* cipher built from the typed master password and the salt the server
\* answered with (the user's stored salt), the client holds the token the
\* server answered with, and IsAuthenticated is true; every data command
\* sends the token the client holds and leaves token and session alone.
C7_SessionAfterAuth ==
    [][/\ (lastCmd'.op \in {"register", "login"} /\ lastCmd'.err = "")
            => /\ Len(http') = 1
               /\ http'[1].resp.salt = users'[lastCmd'.args.username].Salt
               /\ IsAuthenticated(session')
               /\ session'.cryptoManager.key =
                     PBKDF2(lastCmd'.args.master,
                            Base64Decode(http'[1].resp.salt).bytes)
               /\ http'[1].resp.token # NoToken
               /\ cliToken' = http'[1].resp.token
       /\ (lastCmd'.op \in DataOps \cup {"save"})
            => /\ cliToken' = cliToken
               /\ session' = session
               /\ \A i \in DOMAIN lastCmd'.sent :
                     lastCmd'.sent[i].auth = Bearer(cliToken)]_vars

\* a login succeeded and left the session with a cipher and the client with
\* the server's token
C7_Witness ==
    /\ lastCmd.op = "login"
    /\ lastCmd.err = ""
    /\ IsAuthenticated(session)
    /\ Len(http) = 1
    /\ cliToken = http[1].resp.token
    /\ cliToken # NoToken

\* C8: a user's salt is created by the registration and never changes; every
\* successful login answers with the salt the registration answered with.
C8_SaltStable ==
    [][/\ \A n \in DOMAIN users :
             n \in DOMAIN users' /\ users'[n].Salt = users[n].Salt
       /\ \A n \in DOMAIN users' :
             /\ users'[n].Salt = regSalt'[n]
             /\ Base64Decode(regSalt'[n]).bytes.len = SaltSize
       /\ \A i \in DOMAIN http' :
             (http'[i].handler = "handleLogin" /\ http'[i].resp.status = StatusOK)
                => http'[i].resp.salt = regSalt'[http'[i].req.body.Username]]_vars

\* with two users registered under different salts, a login of the second
\* was answered with the second's registration salt
C8_Witness ==
    /\ Cardinality(DOMAIN users) = 2
    /\ \E n \in DOMAIN users, m \in DOMAIN users : regSalt[n] # regSalt[m]
    /\ \E i \in DOMAIN http :
          /\ http[i].handler = "handleLogin"
          /\ http[i].resp.status = StatusOK
          /\ http[i].resp.user.ID = UserID(2)
          /\ http[i].resp.salt = regSalt[http[i].req.body.Username]

\* C9: a token is never accepted past its expiry: at every time after
\* expiresAt, validation of a token of this issuer fails with
\* ErrTokenExpired and the gate answers 401 without running a handler.
C9_ExpiredNeverValid ==
    \A i \in DOMAIN http :
       LET e == http[i] IN
       (/\ Gated(e)
        /\ WellFormed(e.req.auth)
        /\ e.req.auth[2].tok.kind = "jwt"
        /\ e.req.auth[2].tok.sig = JWTSecret
        /\ e.at > e.req.auth[2].tok.exp)
          => /\ e.tokenErr = "ErrTokenExpired"
             /\ e.resp.status = StatusUnauthorized
             /\ e.handler = ""

\* a token of this issuer was presented two ticks or more after its expiry,
\* not only at the first expired moment, and was refused as expired
C9_Witness ==
    \E i \in DOMAIN http :
       LET e == http[i] IN
       /\ Gated(e)
       /\ WellFormed(e.req.auth)
       /\ e.req.auth[2].tok.sig = JWTSecret
       /\ e.at > e.req.auth[2].tok.exp + 1
       /\ e.tokenErr = "ErrTokenExpired"

\* C10: a token validated by the issuer that generated it, at the moment it
\* was generated, is accepted and yields exactly the user id and username it
\* was generated for, the empty username included.
C10_TokenRoundTrip ==
    (/\ jwtClaims.token.kind = "jwt"
     /\ jwtClaims.token.sig = jwtClaims.secret
     /\ jwtClaims.at = jwtClaims.token.iat)
       => /\ jwtClaims.err = ""
          /\ jwtClaims.userID = jwtClaims.token.userID
          /\ jwtClaims.username = jwtClaims.token.username

\* a token generated for the empty username came back from its issuer's
\* validation at once with the same user id and the empty username
C10_Witness ==
    /\ jwtClaims.token.kind = "jwt"
    /\ jwtClaims.token.sig = jwtClaims.secret
    /\ jwtClaims.at = jwtClaims.token.iat
    /\ jwtClaims.token.username = ""
    /\ jwtClaims.err = ""
    /\ jwtClaims.userID = UserID(1)
    /\ jwtClaims.username = ""

\* C11: a token generated under one secret and validated by an issuer with a
\* different secret fails with ErrInvalidToken and yields no claims, whether
\* or not it has expired.
C11_OtherSecretRejected ==
    (jwtClaims.token.kind = "jwt" /\ jwtClaims.token.sig # jwtClaims.secret)
       => /\ jwtClaims.err = "ErrInvalidToken"
          /\ jwtClaims.userID = ""
          /\ jwtClaims.username = ""

\* an unexpired token of one issuer was validated by the issuer with the
\* other secret and refused as invalid
C11_Witness ==
    /\ jwtClaims.token.kind = "jwt"
    /\ jwtClaims.token.sig = JWTSecret
    /\ jwtClaims.secret = OtherSecret
    /\ jwtClaims.at <= jwtClaims.token.exp
    /\ jwtClaims.err = "ErrInvalidToken"

\* C12: decrypting bytes that came out of Encrypt returns exactly the
\* plaintext that went in or fails with no plaintext at all; once one byte of
\* the envelope's data or nonce has been changed it fails with
\* "failed to decrypt data".
C12_DecryptAllOrNothing ==
    (decrypted.done /\ decrypted.env.made)
       => /\ \/ decrypted.err = "" /\ decrypted.pt = decrypted.env.plain
             \/ decrypted.err # "" /\ decrypted.pt = NoPlain
          /\ decrypted.env.tampered # ""
                => decrypted.err = "failed to decrypt data"

\* the manager that made an envelope was given it back with one byte changed
C12_Witness ==
    /\ decrypted.done
    /\ decrypted.env.made
    /\ decrypted.env.tampered = "nonce"
    /\ decrypted.cm = decrypted.env.by
    /\ decrypted.err = "failed to decrypt data"

\* C13: a manager built from a master password and a 32-byte salt decrypts
\* what it encrypted, unchanged, to the plaintext that went in.
C13_RoundTrip ==
    (/\ decrypted.done
     /\ decrypted.env.made
     /\ decrypted.env.tampered = ""
     /\ decrypted.cm = decrypted.env.by)
       => decrypted.err = "" /\ decrypted.pt = decrypted.env.plain

\* a one-space plaintext went through Encrypt and Decrypt of one manager
C13_Witness ==
    /\ decrypted.done
    /\ decrypted.env.made
    /\ decrypted.env.tampered = ""
    /\ decrypted.cm = decrypted.env.by
    /\ decrypted.env.plain = Plain("raw", " ")
    /\ decrypted.pt = Plain("raw", " ")

\* C14: a manager decrypts every unchanged envelope made by a manager with
\* the same master password, whatever its own salt is.
C14_CrossManagerDecrypt ==
    (/\ decrypted.done
     /\ decrypted.env.made
     /\ decrypted.env.tampered = ""
     /\ decrypted.cm.masterPassword = decrypted.env.by.masterPassword)
       => decrypted.err = "" /\ decrypted.pt = decrypted.env.plain

\* a manager with another salt decrypted the envelope
C14_Witness ==
    /\ decrypted.done
    /\ decrypted.env.made
    /\ decrypted.env.tampered = ""
    /\ decrypted.cm.masterPassword = decrypted.env.by.masterPassword
    /\ decrypted.cm.salt # decrypted.env.by.salt
    /\ decrypted.err = ""
    /\ decrypted.pt = decrypted.env.plain

C16_CreatedOwnerFromToken ==
    \A i \in DOMAIN http :
       LET e == http[i] IN
       (e.handler = "handleCreateData" /\ e.resp.status = StatusCreated)
          => /\ e.resp.data.UserID = e.req.auth[2].tok.userID
             /\ e.resp.data.ID \in DOMAIN store
             /\ store[e.resp.data.ID] = e.resp.data

\* a client created a record while sending another user's id in X-User-ID
C16_Witness ==
    \E i \in DOMAIN http :
       LET e == http[i] IN
       /\ e.handler = "handleCreateData"
       /\ e.resp.status = StatusCreated
       /\ UUIDParse(e.req.xUserID).err = ""
       /\ UUIDParse(e.req.xUserID).id # e.req.auth[2].tok.userID
       /\ e.resp.data.ID \in DOMAIN store
       /\ store[e.resp.data.ID].UserID = e.req.auth[2].tok.userID

\* C17: the list a GET /data returns holds every stored record owned by the
\* user of the request's token, and no record of anyone else.
C17_ListIsOwnRecords ==
    \A i \in DOMAIN http :
       LET e == http[i] IN
       (e.handler = "handleGetData" /\ Gated(e))
          => /\ e.resp.status = StatusOK
             /\ \A d \in DOMAIN store :
                   (\E rec \in e.resp.list : rec.ID = d)
                      <=> store[d].UserID = e.req.auth[2].tok.userID
             /\ \A rec \in e.resp.list :
                   /\ rec.ID \in DOMAIN store
                   /\ rec.UserID = e.req.auth[2].tok.userID

\* a user listed while the store held another user's record, and did not
\* get it
C17_Witness ==
    \E i \in DOMAIN http :
       LET e == http[i] IN
       /\ e.handler = "handleGetData"
       /\ e.resp.status = StatusOK
       /\ \E d \in DOMAIN store :
             /\ store[d].UserID # e.req.auth[2].tok.userID
             /\ \A rec \in e.resp.list : rec.ID # d

\* C18: a response carries a token only when it answers a registration or a
\* login; the token names the account of the request's username, whose
\* password is the request's password. A login with an unknown username or a
\* wrong password is answered 401 Unauthorized without a token.
C18_TokenOnlyForCredentials ==
    \A i \in DOMAIN http :
       LET e == http[i] IN
       /\ e.resp.token # NoToken
             => /\ e.handler \in {"handleRegister", "handleLogin"}
                /\ e.resp.status = StatusOK
                /\ e.req.body.Username \in DOMAIN users
                /\ e.resp.token.username = e.req.body.Username
                /\ e.resp.token.userID = users[e.req.body.Username].ID
                /\ BcryptMatches(users[e.req.body.Username].Password,
                                 e.req.body.Password)
       /\ (/\ e.handler = "handleLogin"
           /\ e.req.body.valid
           /\ \/ e.req.body.Username \notin DOMAIN users
              \/ ~BcryptMatches(users[e.req.body.Username].Password,
                                e.req.body.Password))
             => /\ e.resp.status = StatusUnauthorized
                /\ e.resp.token = NoToken
                /\ e.resp.user = NoUser

\* a login for an existing account with a wrong password was turned away
C18_Witness ==
    \E i \in DOMAIN http :
       LET e == http[i] IN
       /\ e.handler = "handleLogin"
       /\ e.req.body.Username \in DOMAIN users
       /\ ~BcryptMatches(users[e.req.body.Username].Password, e.req.body.Password)
       /\ e.resp.status = StatusUnauthorized
       /\ e.resp.token = NoToken

\* the ids handed out so far whose record is no longer in st
Deleted(st) == {DataID(i) : i \in 1..(nextData - 1)} \ DOMAIN st

\* the exchange is a get, update or delete by id of a record deleted from st
Gone(e, st) ==
    /\ e.handler \in {"handleGetDataByID", "handleUpdateData", "handleDeleteData"}
    /\ UUIDParse(e.req.id).err = ""
    /\ UUIDParse(e.req.id).id \in Deleted(st)

\* C19 as stated: a deleted record never comes back, whatever update was
\* under way when it was deleted, and every get, update and delete of its id
\* that starts after the delete is answered 404 Not Found.
C19_DeletedReportsNotFound ==
    [][/\ Deleted(store) \subseteq Deleted(store')
       /\ (http = <<>> /\ http' # <<>> /\ inflight' = inflight)
             => \A i \in DOMAIN http' :
                  Gone(http'[i], store)
                     => http'[i].resp.status = StatusNotFound]_vars

\* C19: a deleted record never comes back, whatever update was under way
\* when it was deleted, and every get, update and delete of its id that
\* starts after the delete fails and returns nothing of the record: with
\* 404 Not Found, or for an update whose body does not decode with 400.
C19_DeletedStaysAbsent ==
    [][/\ Deleted(store) \subseteq Deleted(store')
       /\ (http = <<>> /\ http' # <<>> /\ inflight' = inflight)
             => \A i \in DOMAIN http' :
                  Gone(http'[i], store)
                     => /\ NoContents(http'[i].resp)
                        /\ IF http'[i].handler = "handleUpdateData"
                              /\ ~http'[i].req.body.valid
                           THEN http'[i].resp.status = StatusBadRequest
                           ELSE http'[i].resp.status = StatusNotFound]_vars

\* an update that had loaded the record finished after the record was
\* deleted: it failed and the record is still absent
C19_Witness ==
    \E i \in DOMAIN http :
       /\ http[i].handler = "handleUpdateData"
       /\ http[i].resp.status = 500
       /\ UUIDParse(http[i].req.id).id \in Deleted(store)

\* the last command was a get, update or save that received the record, and
\* the record's data does not decrypt under the session's cipher
Undecryptable ==
    /\ lastCmd.op \in {"get", "update", "save"}
    /\ lastCmd.sent # <<>>
    /\ http # <<>>
    /\ http[1].handler = "handleGetDataByID"
    /\ http[1].resp.status = StatusOK
    /\ Decrypt(session.cryptoManager, http[1].resp.data.Data).err # ""

\* C20: when the record a get, update or save received does not decrypt, the
\* command prints and writes no plaintext and sends nothing after the GET (an
\* update sends no PUT), and it returns an error; a save returns without one
\* only when the overwrite was declined before it came to decrypting.
C20_DecryptFailureIsAnError ==
    Undecryptable
       => /\ lastCmd.shown = NoPlain
          /\ Len(lastCmd.sent) = 1
          /\ Len(http) = 1
          /\ lastCmd.err = ""
                => lastCmd.op = "save" /\ lastCmd.args.entry \notin {"y", "yes"}

\* an update received a record it could not decrypt and ended with the
\* decryption error
C20_Witness ==
    /\ Undecryptable
    /\ lastCmd.op = "update"
    /\ lastCmd.err = "failed to decrypt data"

\* the bytes are no well-formed envelope: empty, not the JSON of an
\* EncryptedData, or with a salt or a nonce of the wrong length
Malformed(b) ==
    \/ b.fmt # "envelope"
    \/ b.salt.len # SaltSize
    \/ NonceLen(b.nonce) # NonceSize
ValidationErrors ==
    {"encrypted data cannot be empty", "failed to unmarshal encrypted data",
     "invalid salt length in encrypted data"}

\* C21: Decrypt answers a malformed envelope with one of its validation
\* errors, and a well-formed envelope that does not open under the derived
\* key with "failed to decrypt data", which is none of them.
C21_ErrorKindsDistinct ==
    decrypted.done
       => /\ Malformed(decrypted.env.bytes) => decrypted.err \in ValidationErrors
          /\ (~Malformed(decrypted.env.bytes) /\ decrypted.err # "")
                => decrypted.err = "failed to decrypt data"

\* C22: a constructor call fails exactly when the master password is empty
\* or the salt it is given is not 32 bytes long, and then returns no manager;
\* the manager a successful call returns holds the given non-empty master
\* password, a 32-byte salt (the given one, if one was given) and the key
\* derived from the two.
C22_ConstructorValidates ==
    built.fn # ""
       => /\ built.err # ""
                <=> \/ built.masterPassword = ""
                    \/ /\ built.fn = "NewCryptoManagerWithSalt"
                       /\ built.salt.len # SaltSize
          /\ built.err # ""
                => /\ built.cm = NilCryptoManager
                   /\ built.err \in {"master password cannot be empty",
                                     "invalid salt length"}
          /\ built.err = ""
                => /\ ~built.cm.nil
                   /\ built.cm.masterPassword = built.masterPassword
                   /\ built.cm.masterPassword # ""
                   /\ built.cm.salt.len = SaltSize
                   /\ built.fn = "NewCryptoManagerWithSalt"
                         => built.cm.salt = built.salt
                   /\ built.cm.key = PBKDF2(built.cm.masterPassword, built.cm.salt)

\* a non-empty master password with a salt one byte too long was refused
C22_Witness ==
    /\ built.fn = "NewCryptoManagerWithSalt"
    /\ built.masterPassword # ""
    /\ built.salt.len = SaltSize + 1
    /\ built.err = "invalid salt length"
    /\ built.cm = NilCryptoManager

C25_NoRetry ==
    /\ Len(lastCmd.sent) <= IF lastCmd.op = "update" THEN 2 ELSE 1
    /\ \A i, j \in DOMAIN lastCmd.sent :
          i # j => lastCmd.sent[i].method # lastCmd.sent[j].method
    /\ Len(http) <= Len(lastCmd.sent)
    /\ Len(http) < Len(lastCmd.sent) => lastCmd.err = "request failed"
    /\ \A i \in DOMAIN http :
          http[i].resp.status \notin {StatusOK, StatusCreated, StatusNoContent}
             => /\ i = Len(http)
                /\ i = Len(lastCmd.sent)
                /\ lastCmd.err = "server error"

\* an update whose GET the server refused ended there
C25_Witness ==
    /\ lastCmd.op = "update"
    /\ Len(lastCmd.sent) = 1
    /\ Len(http) = 1
    /\ http[1].resp.status \notin {StatusOK, StatusCreated, StatusNoContent}
    /\ lastCmd.err = "server error"

\* C26: every record stored for a user decrypts under the cipher built from
\* the master password of the user's registration and the user's salt; and
\* after a login with another master password the session holds no cipher, so
\* it cannot create or update records.
C26_RecordsUnderRegistrationPassword ==
    /\ \A id \in DOMAIN store : \A n \in DOMAIN users : \A mp \in MasterPasswords :
          (store[id].UserID = users[n].ID /\ BcryptMatches(users[n].MasterPassword, mp))
             => Decrypt(NewCryptoManagerWithSalt(
                            mp, Base64Decode(users[n].Salt).bytes).cm,
                        store[id].Data).err = ""
    /\ (/\ lastCmd.op = "login"
        /\ http # <<>>
        /\ http[1].resp.status = StatusOK
        /\ ~BcryptMatches(users[lastCmd.args.username].MasterPassword,
                          lastCmd.args.master))
          => ~IsAuthenticated(session)

\* C27: a register or login command that returns an error leaves the session
\* and the client's token exactly as they were before the command.
C27_FailedAuthLeavesSession ==
    [][(lastCmd'.op \in {"register", "login"} /\ lastCmd'.err # "")
          => /\ session' = session
             /\ cliToken' = cliToken]_vars

\* C28: a get or a list answered while an update of a record is under way
\* returns that record either as it was when the update loaded it or as it is
\* once the update has assigned every field.
C28_UpdateAtomicToReaders ==
    \A i \in DOMAIN http :
       (inflight.busy /\ http[i].resp.status = StatusOK)
          => /\ (/\ http[i].handler = "handleGetDataByID"
                 /\ http[i].resp.data.ID = inflight.data.ID)
                   => http[i].resp.data \in {inflight.was, inflight.data}
             /\ http[i].handler = "handleGetData"
                   => \A d \in http[i].resp.list :
                         d.ID = inflight.data.ID
                            => d \in {inflight.was, inflight.data}

\* C29: no step of an update (an assignment, or the call of UpdateData and
\* the answer) adds or removes a record or changes another record, or the
\* id, owner or created-at time of the record it updates; and the record a
\* successful update answers with and leaves in the store is the record it
\* loaded with the type, name, description, data and metadata of the request
\* and a new updated-at time.
C29_UpdateFrame ==
    [][(inflight.busy /\ inflight' # inflight)
          => /\ DOMAIN store' = DOMAIN store
             /\ \A id \in DOMAIN store :
                   IF id # inflight.data.ID
                   THEN store'[id] = store[id]
                   ELSE /\ store'[id].ID = store[id].ID
                        /\ store'[id].UserID = store[id].UserID
                        /\ store'[id].CreatedAt = store[id].CreatedAt
             /\ (http' # <<>> /\ http'[1].resp.status = StatusOK)
                   => /\ store'[inflight.data.ID] = http'[1].resp.data
                      /\ http'[1].resp.data =
                            [inflight.was EXCEPT
                               !.Type = inflight.req.body.Type,
                               !.Name = inflight.req.body.Name,
                               !.Description = inflight.req.body.Description,
                               !.Data = inflight.req.body.Data,
                               !.Metadata = inflight.req.body.Metadata,
                               !.UpdatedAt = inflight.at]]_vars

\* an update succeeded and changed the record while another record was in
\* the store
C29_Witness ==
    /\ http # <<>>
    /\ http[1].handler = "handleUpdateData"
    /\ http[1].resp.status = StatusOK
    /\ http[1].resp.data.Name = BBody.Name
    /\ \E id \in DOMAIN store :
          /\ id # http[1].resp.data.ID
          /\ store[id].Name = ABody.Name

\* the users without the account of that name
WithoutUser(us, n) == [m \in DOMAIN us \ {n} |-> us[m]]
\* the users with an account of that name whose password is not pw
WithOtherPassword(us, n, pw) ==
    [m \in DOMAIN us \cup {n} |->
       IF m = n
       THEN User(NewUserID, n, BcryptHash(pw \o "x"), BcryptHash("masterpw1"),
                 Base64Encode(Bytes(SaltSize, NewSalt)), 0)
       ELSE us[m]]

\* C30: the response to a login that failed is the response the same request
\* gets when no account has that username, and the response it gets when an
\* account has that username and another password: status and body are the
\* same in both, 401 "Invalid credentials" for a body that decodes.
C30_FailedLoginHidesExistence ==
    \A i \in DOMAIN http :
       (http[i].handler = "handleLogin" /\ http[i].resp.status # StatusOK)
          => /\ http[i].resp =
                   handleLogin(http[i].req, Env(NewUserID, 0, http[i].at),
                               WithoutUser(users, http[i].req.body.Username),
                               store).resp
             /\ http[i].resp =
                   handleLogin(http[i].req, Env(NewUserID, 0, http[i].at),
                               WithOtherPassword(users, http[i].req.body.Username,
                                                 http[i].req.body.Password),
                               store).resp
             /\ http[i].req.body.valid
                   => http[i].resp = ErrorResponse(StatusUnauthorized,
                                                   "Invalid credentials")

\* a login with the username of an account and a wrong password was refused
C30_Witness ==
    /\ http # <<>>
    /\ http[1].handler = "handleLogin"
    /\ http[1].req.body.Username \in DOMAIN users
    /\ ~BcryptMatches(users[http[1].req.body.Username].Password,
                      http[1].req.body.Password)
    /\ http[1].resp.status = StatusUnauthorized

====
